---- MODULE Spec2Model ----
(***************************************************************************)
(* Model of lbry/blockchain/transaction.py: transactions, their inputs     *)
(* and outputs, the wire codec, the lazily cached raw bytes and the        *)
(* mutable TXRef, the amount / balance / abandon accessors and claim       *)
(* signing; and of lbry/blockchain/database.py: the BlockchainDB facade,   *)
(* its executor and the calls suspended on it.                             *)
(*                                                                         *)
(* Byte strings are sequences over 0..255.  An optional value is <<>>      *)
(* (None) or <<v>> (v); the byte caches _raw, _raw_sans_segwit, _hash and  *)
(* _id use <<>> for None, their values never being empty.                  *)
(***************************************************************************)
EXTENDS Integers, Sequences, FiniteSets, TLC

VARIABLES txs, ins, outs, res, db

vars == <<txs, ins, outs, res, db>>

---------------------------------------------------------------------------
(* Bounds of the model.                                                    *)

\* Transactions that exist side by side.
NumTx == 2
\* Input and Output objects on the heap.
MaxHeap == 2
\* Inputs (and outputs) one transaction may hold.
MaxIO == 2
\* Transactions the life-cycle specification builds and reads; the add-only
\* specification uses all NumTx.
NumRead == 1
\* Calls of open, close and execute issued on one BlockchainDB.
MaxCalls == 4

---------------------------------------------------------------------------
(* Optionals and byte-string helpers.                                      *)

None == <<>>

Some(v) == <<v>>

Reverse(b) == [i \in 1..Len(b) |-> b[Len(b) + 1 - i]]

Rep(byte, n) == [i \in 1..n |-> byte]

HexDigits == <<"0", "1", "2", "3", "4", "5", "6", "7",
               "8", "9", "a", "b", "c", "d", "e", "f">>

\* binascii.hexlify(b).decode(): two lowercase hex digits per byte.
Hexlify(b) ==
    [i \in 1..(2 * Len(b)) |->
        LET byte == b[(i + 1) \div 2]
        IN  IF i % 2 = 1 THEN HexDigits[(byte \div 16) + 1]
                         ELSE HexDigits[(byte % 16) + 1]]

---------------------------------------------------------------------------
(* BCDataStream: little-endian integers, compact size, strings.            *)

\* TLC's integers are 32 bits wide.  A uint32 is held as the 32-bit integer
\* with the same bits, so 0xFFFFFFFF is -1; \div and % round down, which makes
\* U32LE write the same four bytes for both readings.  A uint64 is held only
\* when it is below 2^31 (amounts of the model are); reading a larger one is
\* outside the model and reported as a failed read.
U8(n) == <<n % 256>>

U16LE(n) == <<n % 256, (n \div 256) % 256>>

U32LE(n) == <<n % 256, (n \div 256) % 256, (n \div 65536) % 256,
              (n \div 16777216) % 256>>

\* struct.pack('>I', n)
U32BE(n) == Reverse(U32LE(n))

U64LE(n) == U32LE(n) \o <<0, 0, 0, 0>>

write_compact_size(n) ==
    IF n < 253 THEN U8(n)
    ELSE IF n <= 65535 THEN <<253>> \o U16LE(n)
    ELSE <<254>> \o U32LE(n)

write_string(b) == write_compact_size(Len(b)) \o b

\* A read is [ok, val, pos]; pos counts the bytes consumed so far.
Fail == [ok |-> FALSE, val |-> 0, pos |-> 0]

Ok(v, p) == [ok |-> TRUE, val |-> v, pos |-> p]

read(s, p, n) ==
    IF n >= 0 /\ p + n <= Len(s) THEN Ok(SubSeq(s, p + 1, p + n), p + n) ELSE Fail

\* The next step of a parse, taken only if the read before it succeeded.
Bind(r, F(_)) == IF r.ok THEN F(r) ELSE Fail

read_uint8(s, p) == Bind(read(s, p, 1), LAMBDA r : Ok(r.val[1], r.pos))

read_uint16(s, p) == Bind(read(s, p, 2), LAMBDA r : Ok(r.val[1] + 256 * r.val[2], r.pos))

read_uint32(s, p) ==
    Bind(read(s, p, 4), LAMBDA r :
        Ok(r.val[1] + 256 * r.val[2] + 65536 * r.val[3]
           + 16777216 * (IF r.val[4] >= 128 THEN r.val[4] - 256 ELSE r.val[4]), r.pos))

read_uint64(s, p) ==
    Bind(read_uint32(s, p), LAMBDA lo :
        Bind(read(s, lo.pos, 4), LAMBDA hi :
            IF hi.val = <<0, 0, 0, 0>> /\ lo.val >= 0 THEN Ok(lo.val, hi.pos) ELSE Fail))

\* A size read as 2^31 or more is negative here; no stream of the model holds
\* that many bytes or items, and every read of them fails.
read_compact_size(s, p) ==
    Bind(read_uint8(s, p), LAMBDA size :
        IF size.val < 253 THEN size
        ELSE IF size.val = 253 THEN read_uint16(s, size.pos)
        ELSE IF size.val = 254 THEN read_uint32(s, size.pos)
        ELSE read_uint64(s, size.pos))

read_string(s, p) == Bind(read_compact_size(s, p), LAMBDA n : read(s, n.pos, n.val))

---------------------------------------------------------------------------
(* Hash primitives.  A digest is a fixed function of the bytes hashed.     *)

\* A position-weighted checksum of the bytes, summed by halves.
Fold(b, seed) ==
    LET RECURSIVE sum(_, _)
        sum(lo, hi) ==
            IF lo > hi THEN 0
            ELSE IF lo = hi THEN ((b[lo] + 1) * ((lo * lo + 7 * lo + seed) % 4001)) % 1000003
            ELSE LET mid == (lo + hi) \div 2
                 IN  (sum(lo, mid) + sum(mid + 1, hi)) % 1000003
    IN  (sum(1, Len(b)) + seed * Len(b)) % 1000003

Digest(c, n) == [i \in 1..n |-> ((c \div i) + c * i + i) % 256]

sha256(b) == Digest(Fold(b, 7), 32)

ripemd160(b) == Digest(Fold(b, 11), 20)

hash160(b) == ripemd160(sha256(b))

double_sha256(b) == sha256(sha256(b))

---------------------------------------------------------------------------
(* OutputScript / InputScript: script bytes and the tagged value map.      *)

OP_RETURN == 106
OP_2DROP == 109
OP_DROP == 117
OP_CLAIM_NAME == 181
OP_SUPPORT_CLAIM == 182
OP_UPDATE_CLAIM == 183

\* Up to 75 bytes the length is the opcode; up to 255, OP_PUSHDATA1 and one
\* length byte.
OP_PUSHDATA1 == 76

push(b) == IF Len(b) < OP_PUSHDATA1 THEN <<Len(b)>> \o b ELSE <<OP_PUSHDATA1, Len(b)>> \o b

P2PKH(pubkey_hash) == <<118, 169, 20>> \o pubkey_hash \o <<136, 172>>

IsP2PKH(s) ==
    /\ Len(s) = 25
    /\ SubSeq(s, 1, 3) = <<118, 169, 20>>
    /\ SubSeq(s, 24, 25) = <<136, 172>>

\* values.claim holds the payload bytes; values.parsed is None until the
\* claim property replaces those bytes with the Claim object parsed from them.
Script(kind, source, name, cid, claim, pkh) ==
    [kind |-> kind, source |-> source,
     values |-> [claim_name |-> name, claim_id |-> cid, claim |-> claim,
                 pubkey_hash |-> pkh, parsed |-> None]]

OtherScript(source) == Script("other", source, <<>>, <<>>, <<>>, <<>>)

\* A push of up to 255 bytes: [ok, val, pos].
read_push(s, p) ==
    Bind(read_uint8(s, p), LAMBDA n :
        IF n.val < OP_PUSHDATA1 THEN read(s, n.pos, n.val)
        ELSE IF n.val = OP_PUSHDATA1
        THEN Bind(read_uint8(s, n.pos), LAMBDA m : read(s, m.pos, m.val))
        ELSE Fail)

\* The pushes and drops of a claim script, read one after another; st is
\* [ok, pos, name, cid, claim].
ClaimScriptName(source) ==
    LET r == read_push(source, 1)
    IN  [ok |-> r.ok, pos |-> r.pos, name |-> r.val, cid |-> <<>>, claim |-> <<>>]

ClaimScriptId(source, st) ==
    IF ~st.ok \/ source[1] = OP_CLAIM_NAME THEN st
    ELSE LET r == read_push(source, st.pos)
         IN  [st EXCEPT !.ok = r.ok /\ Len(r.val) = 20, !.pos = r.pos, !.cid = r.val]

ClaimScriptClaim(source, st) ==
    IF ~st.ok \/ source[1] = OP_SUPPORT_CLAIM THEN st
    ELSE LET r == read_push(source, st.pos)
         IN  [st EXCEPT !.ok = r.ok, !.pos = r.pos, !.claim = r.val]

ClaimScriptTail(source, st) ==
    IF ~st.ok THEN st
    ELSE LET r == read(source, st.pos, 2)
         IN  [st EXCEPT !.ok = /\ r.ok
                               /\ r.val = IF source[1] = OP_UPDATE_CLAIM
                                          THEN <<OP_2DROP, OP_2DROP>>
                                          ELSE <<OP_2DROP, OP_DROP>>
                               /\ IsP2PKH(SubSeq(source, r.pos + 1, Len(source))),
                       !.pos = r.pos]

ClaimScript(source, st) ==
    IF st.ok
    THEN Script(CASE source[1] = OP_CLAIM_NAME -> "claim_name"
                  [] source[1] = OP_SUPPORT_CLAIM -> "support_claim"
                  [] OTHER -> "update_claim",
                source, st.name, st.cid, st.claim,
                SubSeq(source, st.pos + 4, st.pos + 23))
    ELSE OtherScript(source)

\* OutputScript(source): the template the bytes match and its values.
OutputScript(source) ==
    IF IsP2PKH(source)
    THEN Script("pay_pubkey_hash", source, <<>>, <<>>, <<>>, SubSeq(source, 4, 23))
    ELSE IF Len(source) > 0 /\ source[1] = OP_RETURN
    THEN Script("return_data", source, <<>>, <<>>, <<>>, <<>>)
    ELSE IF Len(source) > 0 /\ source[1] \in {OP_CLAIM_NAME, OP_SUPPORT_CLAIM, OP_UPDATE_CLAIM}
    THEN ClaimScript(source,
            ClaimScriptTail(source,
                ClaimScriptClaim(source, ClaimScriptId(source, ClaimScriptName(source)))))
    ELSE OtherScript(source)

pay_pubkey_hash(pkh) == OutputScript(P2PKH(pkh))

pay_claim_name_pubkey_hash(name, claim, pkh) ==
    OutputScript(<<OP_CLAIM_NAME>> \o push(name) \o push(claim)
                 \o <<OP_2DROP, OP_DROP>> \o P2PKH(pkh))

pay_update_claim_pubkey_hash(name, cid, claim, pkh) ==
    OutputScript(<<OP_UPDATE_CLAIM>> \o push(name) \o push(cid) \o push(claim)
                 \o <<OP_2DROP, OP_2DROP>> \o P2PKH(pkh))

pay_support_pubkey_hash(name, cid, pkh) ==
    OutputScript(<<OP_SUPPORT_CLAIM>> \o push(name) \o push(cid)
                 \o <<OP_2DROP, OP_DROP>> \o P2PKH(pkh))

\* The template name ends with pay_pubkey_hash: plain and claim scripts alike.
is_pay_pubkey_hash(script) ==
    script.kind \in {"pay_pubkey_hash", "claim_name", "update_claim", "support_claim"}
is_claim_name(script) == script.kind = "claim_name"
is_update_claim(script) == script.kind = "update_claim"
is_support_claim(script) == script.kind = "support_claim"
is_claim_involved(script) ==
    is_claim_name(script) \/ is_update_claim(script) \/ is_support_claim(script)

\* InputScript.redeem_pubkey_hash(signature, pubkey)
redeem_pubkey_hash(signature, pubkey) == push(signature) \o push(pubkey)

---------------------------------------------------------------------------
(* TXRef, TXORef, Input, Output.                                           *)

\* 0xFFFFFFFF, the default sequence, as a 32-bit integer.
UINT32_MAX == -1

NULL_HASH32 == Rep(0, 32)
NULL_SIGNATURE == Rep(0, 72)
NULL_PUBLIC_KEY == Rep(0, 33)

\* A TXRef: none (unattached), the mutable ref of a live transaction, or an
\* immutable ref carrying its hash.
NoRef == [kind |-> "none", tx |-> 0, hash |-> <<>>]

TXRefMutable(t) == [kind |-> "mutable", tx |-> t, hash |-> <<>>]

TXRefImmutable(h) == [kind |-> "immutable", tx |-> 0, hash |-> h]

\* TXORef(tx_ref, position): txo is None.
TXORef(tx_ref, position) == [tx_ref |-> tx_ref, position |-> position, txo |-> None]

\* TXORefResolvable(txo): copies the output's tx_ref and position.
TXORefResolvable(txo) ==
    [tx_ref |-> txo.tx_ref, position |-> txo.position, txo |-> Some(txo)]

is_null(txo_ref) == txo_ref.tx_ref.hash = NULL_HASH32

\* Output.__init__; position -1 stands for None.
\* channel is None or the heap index of the channel output; private_key is
\* None or the key.
Output(amount, script, tx_ref, position, is_my_output) ==
    [amount |-> amount, script |-> script, tx_ref |-> tx_ref,
     position |-> position, is_my_output |-> is_my_output,
     channel |-> None, private_key |-> None]

\* An Input that keeps the script argument as its script whatever the ref.
InputKeepsScript(txo_ref, script, sequence) ==
    [txo_ref |-> txo_ref, sequence |-> sequence,
     coinbase |-> IF is_null(txo_ref) THEN script ELSE None,
     script |-> script,
     tx_ref |-> NoRef, position |-> -1]

\* Input.__init__: script is the optional script argument.
Input(txo_ref, script, sequence) ==
    [txo_ref |-> txo_ref, sequence |-> sequence,
     coinbase |-> IF is_null(txo_ref) THEN script ELSE None,
     script |-> IF ~is_null(txo_ref) THEN script ELSE None,
     tx_ref |-> NoRef, position |-> -1]

is_coinbase(txi) == txi.coinbase # None

\* Input.spend(txo); asserts txo.script.is_pay_pubkey_hash.
spend(txo) ==
    Input(TXORefResolvable(txo),
          Some(redeem_pubkey_hash(NULL_SIGNATURE, NULL_PUBLIC_KEY)), UINT32_MAX)

create_coinbase == Input(TXORef(TXRefImmutable(NULL_HASH32), 0), Some(<<98, 101, 101, 102>>),
                         UINT32_MAX)

\* An input writer that packs the previous output's position big-endian.
InputSerializeBigEndian(txi) ==
    txi.txo_ref.tx_ref.hash \o U32BE(txi.txo_ref.position)
    \o write_string(IF is_coinbase(txi) THEN txi.coinbase[1] ELSE txi.script[1])
    \o U32LE(txi.sequence)

\* Input.serialize_to(stream) without an alternate script.
InputSerialize(txi) ==
    txi.txo_ref.tx_ref.hash \o U32LE(txi.txo_ref.position)
    \o write_string(IF is_coinbase(txi) THEN txi.coinbase[1] ELSE txi.script[1])
    \o U32LE(txi.sequence)

OutputSerialize(txo) == U64LE(txo.amount) \o write_string(txo.script.source)

\* Input.deserialize_from(stream): [ok, val, pos].
InputDeserialize(s, p) ==
    Bind(read(s, p, 32), LAMBDA h :
    Bind(read_uint32(s, h.pos), LAMBDA position :
    Bind(read_string(s, position.pos), LAMBDA script :
    Bind(read_uint32(s, script.pos), LAMBDA sequence :
        Ok(Input(TXORef(TXRefImmutable(h.val), position.val), Some(script.val),
                 sequence.val), sequence.pos)))))

\* Output.deserialize_from(stream): [ok, val, pos].
OutputDeserialize(s, p) ==
    Bind(read_uint64(s, p), LAMBDA amount :
    Bind(read_compact_size(s, amount.pos), LAMBDA length :
    Bind(read(s, length.pos, length.val), LAMBDA source :
        Ok(Output(amount.val, OutputScript(source.val), NoRef, -1, "None"), source.pos))))

---------------------------------------------------------------------------
(* Transaction.  _inputs and _outputs hold heap indices into ins / outs,   *)
(* so one Input / Output object can be reached from several places.        *)

Txs == 1..NumTx

Flatten(ss) ==
    LET RECURSIVE go(_)
        go(i) == IF i > Len(ss) THEN <<>> ELSE ss[i] \o go(i + 1)
    IN  go(1)

\* Transaction.__init__ before the optional deserialize; `since` is a
\* history field: "none" until the first add_inputs / add_outputs, "clean"
\* while only reads followed the last add, "other" after a deserialize.
NewTransaction(rawbytes, version, locktime) ==
    [live |-> TRUE, _raw |-> rawbytes, _raw_sans_segwit |-> None,
     is_segwit_flag |-> 0, witnesses |-> <<>>, version |-> version,
     locktime |-> locktime, _inputs |-> <<>>, _outputs |-> <<>>,
     _hash |-> None, _id |-> None, since |-> "none"]

NoTransaction == [NewTransaction(None, 0, 0) EXCEPT !.live = FALSE]

\* A serializer that emits the marker, flag and witness block unless
\* sans_segwit is asked for.
SerializeWithWitness(tx, with_inputs, sans_segwit) ==
    LET segwit == ~sans_segwit /\ with_inputs /\ tx.is_segwit_flag # 0
    IN  U32LE(tx.version)
        \o (IF segwit THEN <<0, tx.is_segwit_flag>> ELSE <<>>)
        \o (IF with_inputs
            THEN write_compact_size(Len(tx._inputs))
                 \o Flatten([i \in 1..Len(tx._inputs) |-> InputSerialize(ins[tx._inputs[i]])])
            ELSE <<>>)
        \o write_compact_size(Len(tx._outputs))
        \o Flatten([i \in 1..Len(tx._outputs) |-> OutputSerialize(outs[tx._outputs[i]])])
        \o (IF segwit
            THEN Flatten([i \in 1..Len(tx.witnesses) |-> write_string(tx.witnesses[i])])
            ELSE <<>>)
        \o U32LE(tx.locktime)

\* Transaction._serialize(with_inputs, sans_segwit)
_serialize(tx, with_inputs, sans_segwit) ==
    U32LE(tx.version)
    \o (IF with_inputs
        THEN write_compact_size(Len(tx._inputs))
             \o Flatten([i \in 1..Len(tx._inputs) |-> InputSerialize(ins[tx._inputs[i]])])
        ELSE <<>>)
    \o write_compact_size(Len(tx._outputs))
    \o Flatten([i \in 1..Len(tx._outputs) |-> OutputSerialize(outs[tx._outputs[i]])])
    \o U32LE(tx.locktime)

\* Each property below is the transaction after the read (caches filled);
\* the value read is the matching *_value.

\* Transaction.raw
raw(tx) ==
    IF tx._raw = None THEN [tx EXCEPT !._raw = _serialize(tx, TRUE, FALSE)] ELSE tx

raw_value(tx) == raw(tx)._raw

\* A raw_sans_segwit that hands back raw whatever the flag.
RawForSansSegwit(tx) == raw_value(tx)

\* Transaction.raw_sans_segwit
raw_sans_segwit(tx) ==
    IF tx.is_segwit_flag # 0
    THEN IF tx._raw_sans_segwit = None
         THEN [tx EXCEPT !._raw_sans_segwit = _serialize(tx, TRUE, TRUE)]
         ELSE tx
    ELSE raw(tx)

raw_sans_segwit_value(tx) ==
    IF tx.is_segwit_flag # 0 THEN raw_sans_segwit(tx)._raw_sans_segwit
    ELSE raw_value(tx)

\* TXRefMutable.hash
hash(tx) ==
    IF tx._hash = None
    THEN [raw_sans_segwit(tx) EXCEPT !._hash = sha256(sha256(raw_sans_segwit_value(tx)))]
    ELSE tx

hash_value(tx) == hash(tx)._hash

\* TXRefMutable.id
id(tx) ==
    IF tx._id = None
    THEN [hash(tx) EXCEPT !._id = Hexlify(Reverse(hash_value(tx)))]
    ELSE tx

id_value(tx) == id(tx)._id

\* TXRefMutable.reset
reset(tx) == [tx EXCEPT !._id = None, !._hash = None]

\* A _reset that clears the ref and raw_sans_segwit but keeps _raw.
ResetKeepsRaw(tx) == reset([tx EXCEPT !._raw_sans_segwit = None])

\* Transaction._reset
_reset(tx) == reset([tx EXCEPT !._raw = None, !._raw_sans_segwit = None])

\* tx_ref.hash: a mutable ref reads its transaction's hash, an immutable
\* one holds it.
TxRefHash(ref) ==
    IF ref.kind = "mutable" THEN hash_value(txs[ref.tx]) ELSE ref.hash

\* A claim_hash that packs the position little-endian.
ClaimHashLittleEndian(txo) ==
    IF is_claim_name(txo.script)
    THEN IF txo.tx_ref = NoRef
         THEN [ok |-> FALSE, val |-> <<>>, err |-> "AttributeError"]
         ELSE [ok |-> TRUE, val |-> hash160(TxRefHash(txo.tx_ref) \o U32LE(txo.position)),
               err |-> ""]
    ELSE IF is_update_claim(txo.script) \/ is_support_claim(txo.script)
    THEN [ok |-> TRUE, val |-> txo.script.values.claim_id, err |-> ""]
    ELSE [ok |-> FALSE, val |-> <<>>, err |-> "ValueError"]

\* Output.claim_hash: [ok, val, err].  An output not yet attached has
\* tx_ref None, and reading its hash raises.
claim_hash(txo) ==
    IF is_claim_name(txo.script)
    THEN IF txo.tx_ref = NoRef
         THEN [ok |-> FALSE, val |-> <<>>, err |-> "AttributeError"]
         ELSE [ok |-> TRUE, val |-> hash160(TxRefHash(txo.tx_ref) \o U32BE(txo.position)),
               err |-> ""]
    ELSE IF is_update_claim(txo.script) \/ is_support_claim(txo.script)
    THEN [ok |-> TRUE, val |-> txo.script.values.claim_id, err |-> ""]
    ELSE [ok |-> FALSE, val |-> <<>>, err |-> "ValueError"]

\* Output.claim_id
claim_id(txo) ==
    LET h == claim_hash(txo)
    IN  IF h.ok THEN [h EXCEPT !.val = Hexlify(Reverse(h.val))] ELSE h

\* The loop of Transaction._add over heap objects: each txio gets this
\* transaction's ref and position len(existing_ios), then is appended.
\* Returns the heap and the list after the loop.
_add(heap, existing_ios, new_ios, t) ==
    LET RECURSIVE go(_, _, _)
        go(h, ex, i) ==
            IF i > Len(new_ios) THEN [heap |-> h, ios |-> ex]
            ELSE LET k == new_ios[i]
                 IN  go([h EXCEPT ![k].tx_ref = TXRefMutable(t), ![k].position = Len(ex)],
                        Append(ex, k), i + 1)
    IN  go(heap, existing_ios, 1)

\* n items read one after another with Rd: [ok, val, pos], val the items.
ReadMany(Rd(_, _), s, p, n) ==
    LET RECURSIVE go(_, _, _)
        go(k, pos, acc) ==
            IF k = 0 THEN Ok(acc, pos)
            ELSE IF k < 0 THEN Fail
            ELSE LET r == Rd(s, pos)
                 IN  IF r.ok THEN go(k - 1, r.pos, Append(acc, r.val)) ELSE Fail
    IN  go(n, p, <<>>)

\* One witness item: stream.read(stream.read_compact_size()).
WitnessItem(s, p) == read_string(s, p)

\* One input's witness stack, appended item by item.
WitnessStack(s, p) ==
    Bind(read_compact_size(s, p), LAMBDA n : ReadMany(WitnessItem, s, n.pos, n.val))

\* Transaction.deserialize reads the stream field by field; st is what has
\* been read so far, with pos the stream position and ok false once a read
\* has failed.  is_segwit_flag starts as the transaction's own flag.
ParseStart(flag0) ==
    [ok |-> TRUE, pos |-> 0, version |-> 0, marker |-> FALSE, is_segwit_flag |-> flag0,
     input_count |-> 0, inputs |-> <<>>, output_count |-> 0, outputs |-> <<>>, witnesses |-> <<>>,
     locktime |-> 0]

\* self.version = stream.read_uint32()
ParseVersion(s, st) ==
    LET r == read_uint32(s, st.pos)
    IN  [st EXCEPT !.ok = r.ok, !.pos = r.pos, !.version = r.val]

\* input_count = stream.read_compact_size()
ParseInputCount(s, st) ==
    IF ~st.ok THEN st
    ELSE LET r == read_compact_size(s, st.pos)
         IN  [st EXCEPT !.ok = r.ok, !.pos = r.pos, !.input_count = r.val,
                        !.marker = r.ok /\ r.val = 0]

\* if input_count == 0: self.is_segwit_flag = stream.read_uint8()
ParseFlag(s, st) ==
    IF ~st.ok \/ ~st.marker THEN st
    ELSE LET r == read_uint8(s, st.pos)
         IN  [st EXCEPT !.ok = r.ok, !.pos = r.pos, !.is_segwit_flag = r.val]

\* ... and input_count = stream.read_compact_size() again
ParseRealInputCount(s, st) ==
    IF ~st.ok \/ ~st.marker THEN st
    ELSE LET r == read_compact_size(s, st.pos)
         IN  [st EXCEPT !.ok = r.ok, !.pos = r.pos, !.input_count = r.val]

ParseInputs(s, st) ==
    IF ~st.ok THEN st
    ELSE LET r == ReadMany(InputDeserialize, s, st.pos, st.input_count)
         IN  [st EXCEPT !.ok = r.ok, !.pos = r.pos, !.inputs = r.val]

ParseOutputCount(s, st) ==
    IF ~st.ok THEN st
    ELSE LET r == read_compact_size(s, st.pos)
         IN  [st EXCEPT !.ok = r.ok, !.pos = r.pos, !.output_count = r.val]

ParseOutputs(s, st) ==
    IF ~st.ok THEN st
    ELSE LET r == ReadMany(OutputDeserialize, s, st.pos, st.output_count)
         IN  [st EXCEPT !.ok = r.ok, !.pos = r.pos, !.outputs = r.val]

\* if self.is_segwit_flag: drain one witness stack per input
ParseWitnesses(s, st) ==
    IF ~st.ok \/ st.is_segwit_flag = 0 THEN st
    ELSE LET r == ReadMany(WitnessStack, s, st.pos, st.input_count)
         IN  [st EXCEPT !.ok = r.ok, !.pos = r.pos, !.witnesses = IF r.ok THEN Flatten(r.val) ELSE <<>>]

\* self.locktime = stream.read_uint32()
ParseLocktime(s, st) ==
    IF ~st.ok THEN st
    ELSE LET r == read_uint32(s, st.pos)
         IN  [st EXCEPT !.ok = r.ok, !.pos = r.pos, !.locktime = r.val]

ParseTx(s, flag0) ==
    ParseLocktime(s, ParseWitnesses(s, ParseOutputs(s, ParseOutputCount(s,
        ParseInputs(s, ParseRealInputCount(s, ParseFlag(s, ParseInputCount(s,
            ParseVersion(s, ParseStart(flag0))))))))))

\* The effect of Transaction.deserialize on transaction t of all, over the
\* heaps hi and ho, once the stream has parsed as p: the parsed inputs and
\* outputs are new heap objects, added through _add with reset=False.  The
\* result is the new (txs, ins, outs).
DeserializedOver(all, hi, ho, t, p) ==
    LET tx == all[t]
        newIns == [i \in 1..Len(p.inputs) |-> Len(hi) + i]
        newOuts == [i \in 1..Len(p.outputs) |-> Len(ho) + i]
        ai == _add(hi \o p.inputs, tx._inputs, newIns, t)
        ao == _add(ho \o p.outputs, tx._outputs, newOuts, t)
    IN  [txs |-> [all EXCEPT ![t] =
                    [tx EXCEPT !.version = p.version,
                               !.is_segwit_flag = p.is_segwit_flag,
                               !._inputs = ai.ios,
                               !._outputs = ao.ios,
                               !.witnesses = IF p.is_segwit_flag # 0 THEN p.witnesses ELSE @,
                               !.locktime = p.locktime]],
         ins |-> ai.heap, outs |-> ao.heap]

DeserializedInto(all, t, p) == DeserializedOver(all, ins, outs, t, p)

\* Transaction.deserialize(stream) on transaction t.
deserialize(t, s) == DeserializedInto(txs, t, ParseTx(s, txs[t].is_segwit_flag))

\* The parsed objects fit the model's heap and lists.
Fits(t, p) ==
    /\ p.ok
    /\ Len(ins) + Len(p.inputs) <= MaxHeap
    /\ Len(outs) + Len(p.outputs) <= MaxHeap
    /\ Len(txs[t]._inputs) + Len(p.inputs) <= MaxIO
    /\ Len(txs[t]._outputs) + Len(p.outputs) <= MaxIO

CanDeserialize(t, s) == Fits(t, ParseTx(s, txs[t].is_segwit_flag))

---------------------------------------------------------------------------
(* Amount, fee, balance and abandon accessors.  Those that can raise give  *)
(* [ok, val, err].                                                         *)

\* The Input objects and Output objects a transaction holds, in order.
inputs(tx) == [i \in 1..Len(tx._inputs) |-> ins[tx._inputs[i]]]
outputs(tx) == [i \in 1..Len(tx._outputs) |-> outs[tx._outputs[i]]]

\* An amount accessor that reads 0 where there is no spent output.
AmountZeroIfUnresolved(txi) ==
    IF txi.txo_ref.txo = None
    THEN [ok |-> TRUE, val |-> 0, err |-> ""]
    ELSE [ok |-> TRUE, val |-> txi.txo_ref.txo[1].amount, err |-> ""]

\* Input.amount
amount(txi) ==
    IF txi.txo_ref.txo = None
    THEN [ok |-> FALSE, val |-> 0, err |-> "ValueError"]
    ELSE [ok |-> TRUE, val |-> txi.txo_ref.txo[1].amount, err |-> ""]

\* An is_my_input that reads an unset annotation as not mine.
IsMyInputUnsetIsFalse(txi) ==
    IF txi.txo_ref.txo = None THEN "False"
    ELSE IF txi.txo_ref.txo[1].is_my_output = "None" THEN "False"
    ELSE txi.txo_ref.txo[1].is_my_output

\* Input.is_my_input: "True", "False" or "None".
is_my_input(txi) ==
    IF txi.txo_ref.txo = None THEN "False" ELSE txi.txo_ref.txo[1].is_my_output

\* sum(f(x) for x in xs)
Sum(xs, f(_)) ==
    LET RECURSIVE go(_)
        go(i) == IF i > Len(xs) THEN 0 ELSE f(xs[i]) + go(i + 1)
    IN  go(1)

\* Transaction.input_sum
input_sum(tx) ==
    Sum(SelectSeq(inputs(tx), LAMBDA i : i.txo_ref.txo # None), LAMBDA i : amount(i).val)

\* Transaction.output_sum
output_sum(tx) == Sum(outputs(tx), LAMBDA o : o.amount)

\* Transaction.fee
fee(tx) == input_sum(tx) - output_sum(tx)

\* The loop of net_account_balance over the inputs from index i on, with
\* balance b so far: [ok, val, err].
BalanceInputs(txis, i, b) ==
    LET RECURSIVE go(_, _)
        go(k, bal) ==
            IF k > Len(txis) THEN [ok |-> TRUE, val |-> bal, err |-> ""]
            ELSE IF txis[k].txo_ref.txo = None THEN go(k + 1, bal)
            ELSE IF is_my_input(txis[k]) = "True" THEN go(k + 1, bal - amount(txis[k]).val)
            ELSE IF is_my_input(txis[k]) = "None"
            THEN [ok |-> FALSE, val |-> 0, err |-> "ValueError"]
            ELSE go(k + 1, bal)
    IN  go(i, b)

\* ... and its loop over the outputs.
BalanceOutputs(txos, i, b) ==
    LET RECURSIVE go(_, _)
        go(k, bal) ==
            IF k > Len(txos) THEN [ok |-> TRUE, val |-> bal, err |-> ""]
            ELSE IF txos[k].is_my_output = "True" THEN go(k + 1, bal + txos[k].amount)
            ELSE IF txos[k].is_my_output = "None"
            THEN [ok |-> FALSE, val |-> 0, err |-> "ValueError"]
            ELSE go(k + 1, bal)
    IN  go(i, b)

\* Transaction.net_account_balance
net_account_balance(tx) ==
    LET r == BalanceInputs(inputs(tx), 1, 0)
    IN  IF r.ok THEN BalanceOutputs(outputs(tx), 1, r.val) ELSE r

\* An update filter that takes update-claim outputs of any owner.
UpdateOutputsOfAnyOwner(tx) ==
    SelectSeq(outputs(tx), LAMBDA txo : is_update_claim(txo.script))

\* Transaction.my_update_outputs
my_update_outputs(tx) ==
    SelectSeq(outputs(tx),
              LAMBDA txo : txo.is_my_output = "True" /\ is_update_claim(txo.script))

\* The is_update flag my_abandon_outputs computes for one spent output.
IsUpdate(tx, abandon) ==
    /\ is_claim_name(abandon.script) \/ is_update_claim(abandon.script)
    /\ \E j \in 1..Len(my_update_outputs(tx)) :
          claim_id(abandon).val = claim_id(my_update_outputs(tx)[j]).val

\* Transaction.my_abandon_outputs, as the sequence it yields: the loop over
\* the inputs from index i on.
my_abandon_outputs(tx) ==
    LET RECURSIVE go(_)
        go(i) ==
            IF i > Len(tx._inputs) THEN <<>>
            ELSE LET abandon == ins[tx._inputs[i]].txo_ref.txo
                 IN  IF /\ abandon # None
                        /\ abandon[1].is_my_output = "True"
                        /\ is_claim_involved(abandon[1].script)
                        /\ ~IsUpdate(tx, abandon[1])
                     THEN <<abandon[1]>> \o go(i + 1)
                     ELSE go(i + 1)
    IN  go(1)

---------------------------------------------------------------------------
(* The claim payload (lbry.schema.claim), the channel key (ecdsa), and     *)
(* Output.sign / is_signed_by / clear_signature.                           *)

\* A Claim object; <<>> stands for None in the three signing fields.
Claim(message, signing_channel_hash, signature, unsigned_payload) ==
    [message |-> message, signing_channel_hash |-> signing_channel_hash,
     signature |-> signature, unsigned_payload |-> unsigned_payload]

\* Claim.from_bytes.  0: the message follows.  1: channel hash (20 bytes),
\* signature (64 bytes), message.  Anything else is a payload of the old
\* schema: with a channel hash and signature it keeps the signed bytes as
\* unsigned_payload.
ClaimFromBytes(b) ==
    IF Len(b) > 0 /\ b[1] = 0 THEN Claim(Tail(b), None, None, None)
    ELSE IF Len(b) >= 85 /\ b[1] = 1
    THEN Claim(SubSeq(b, 86, Len(b)), SubSeq(b, 2, 21), SubSeq(b, 22, 85), None)
    ELSE IF Len(b) >= 85
    THEN Claim(SubSeq(b, 86, Len(b)), SubSeq(b, 2, 21), SubSeq(b, 22, 85),
               SubSeq(b, 86, Len(b)))
    ELSE Claim(b, None, None, None)

\* Claim.to_bytes: always the current schema.
to_bytes(c) ==
    IF c.signature # None
    THEN <<1>> \o c.signing_channel_hash \o c.signature \o c.message
    ELSE <<0>> \o c.message

to_message_bytes(c) == c.message

\* Claim.clear_signature
claim_clear_signature(c) == [c EXCEPT !.signing_channel_hash = None, !.signature = None]

\* claim.channel.public_key_bytes: a channel message is its tag and the key.
public_key_bytes(c) == Tail(c.message)

\* The DER bytes of the verifying key of a private key.
to_der(private_key) == <<48, private_key>>

\* SigningKey.sign_digest_deterministic: 64 bytes fixed by key and digest.
sign_digest_deterministic(private_key, digest) == Digest(Fold(digest, 100 + private_key), 64)

\* ecdsa.util.sigencode_der(r, s, order) of the two halves of the signature.
sigencode_der(signature) ==
    [r |-> SubSeq(signature, 1, Len(signature) \div 2),
     s |-> SubSeq(signature, (Len(signature) \div 2) + 1, Len(signature))]

PrivateKeys == {1, 2}

\* Output.is_signature_valid
is_signature_valid(encoded_signature, signature_digest, public_key) ==
    \E key \in PrivateKeys :
        /\ to_der(key) = public_key
        /\ encoded_signature.r \o encoded_signature.s
             = sign_digest_deterministic(key, signature_digest)

\* Base58.decode(ledger.hash160_to_address(pubkey_hash)): prefix, hash, checksum.
AddressBytes(pubkey_hash) ==
    <<85>> \o pubkey_hash \o SubSeq(double_sha256(<<85>> \o pubkey_hash), 1, 4)

\* Output.is_claim
is_claim(txo) == is_claim_name(txo.script) \/ is_update_claim(txo.script)

\* Output.claim: the output after the read (the payload parsed in place);
\* the value read is claim_value.  Only for is_claim outputs.
claim(txo) ==
    IF txo.script.values.parsed = None
    THEN [txo EXCEPT !.script.values.parsed = Some(ClaimFromBytes(txo.script.values.claim))]
    ELSE txo

claim_value(txo) == claim(txo).script.values.parsed[1]

\* Script.generate: the source rebuilt from the template and the values.
generate(script) ==
    LET v == script.values
        payload == IF v.parsed = None THEN v.claim ELSE to_bytes(v.parsed[1])
    IN  [script EXCEPT !.source =
            CASE script.kind = "claim_name" ->
                    <<OP_CLAIM_NAME>> \o push(v.claim_name) \o push(payload)
                    \o <<OP_2DROP, OP_DROP>> \o P2PKH(v.pubkey_hash)
              [] script.kind = "update_claim" ->
                    <<OP_UPDATE_CLAIM>> \o push(v.claim_name) \o push(v.claim_id)
                    \o push(payload) \o <<OP_2DROP, OP_2DROP>> \o P2PKH(v.pubkey_hash)
              [] script.kind = "support_claim" ->
                    <<OP_SUPPORT_CLAIM>> \o push(v.claim_name) \o push(v.claim_id)
                    \o <<OP_2DROP, OP_DROP>> \o P2PKH(v.pubkey_hash)
              [] script.kind = "pay_pubkey_hash" -> P2PKH(v.pubkey_hash)
              [] OTHER -> script.source]

Error(e) == [ok |-> FALSE, val |-> <<>>, err |-> e]

Value(v) == [ok |-> TRUE, val |-> v, err |-> ""]

\* TXORef.hash
TXORefHash(txo_ref) == TxRefHash(txo_ref.tx_ref) \o U32LE(txo_ref.position)

\* self.tx_ref.tx.inputs[0].txo_ref.hash: [ok, val, err].
FirstInputHash(txo) ==
    IF txo.tx_ref.kind # "mutable" THEN Error("AttributeError")
    ELSE IF txs[txo.tx_ref.tx]._inputs = <<>> THEN Error("IndexError")
    ELSE Value(TXORefHash(ins[txs[txo.tx_ref.tx]._inputs[1]].txo_ref))

\* A digest that takes the channel hash reversed in both modes.
DigestOverReversedChannelHash(txo, ledger) ==
    LET c == claim_value(txo)
        first == FirstInputHash(txo)
    IN  IF c.unsigned_payload # None
        THEN IF ledger = None THEN Error("AttributeError")
             ELSE IF c.signing_channel_hash = None THEN Error("TypeError")
             ELSE Value(sha256(AddressBytes(txo.script.values.pubkey_hash)
                               \o c.unsigned_payload \o Reverse(c.signing_channel_hash)))
        ELSE IF ~first.ok THEN first
        ELSE IF c.signing_channel_hash = None THEN Error("TypeError")
        ELSE Value(sha256(first.val \o Reverse(c.signing_channel_hash) \o to_message_bytes(c)))

\* Output.get_signature_digest(ledger): [ok, val, err]; ledger is None or
\* Some ledger.
get_signature_digest(txo, ledger) ==
    LET c == claim_value(txo)
        first == FirstInputHash(txo)
    IN  IF c.unsigned_payload # None
        THEN IF ledger = None THEN Error("AttributeError")
             ELSE IF c.signing_channel_hash = None THEN Error("TypeError")
             ELSE Value(sha256(AddressBytes(txo.script.values.pubkey_hash)
                               \o c.unsigned_payload \o Reverse(c.signing_channel_hash)))
        ELSE IF ~first.ok THEN first
        ELSE IF c.signing_channel_hash = None THEN Error("TypeError")
        ELSE Value(sha256(first.val \o c.signing_channel_hash \o to_message_bytes(c)))

\* Output.get_encoded_signature: [ok, val, err].
get_encoded_signature(txo) ==
    IF claim_value(txo).signature = None THEN Error("TypeError")
    ELSE Value(sigencode_der(claim_value(txo).signature))

\* Output.is_signed_by(channel, ledger): [ok, val, err].
is_signed_by(txo, channel, ledger) ==
    IF ~is_claim(txo) THEN Error("ValueError")
    ELSE LET encoded == get_encoded_signature(txo)
             digest == get_signature_digest(txo, ledger)
         IN  IF ~encoded.ok THEN encoded
             ELSE IF ~digest.ok THEN digest
             ELSE IF ~is_claim(channel) THEN Error("ValueError")
             ELSE Value(is_signature_valid(encoded.val, digest.val,
                                           public_key_bytes(claim_value(channel))))

\* The objects is_signed_by parses on its way: the output's claim and, when
\* the digest was computed, the channel's.
IsSignedByHeap(heap, k, c, ledger) ==
    IF ~is_claim(heap[k]) THEN heap
    ELSE LET parsed == [heap EXCEPT ![k] = claim(heap[k])]
         IN  IF /\ get_encoded_signature(heap[k]).ok
                /\ get_signature_digest(heap[k], ledger).ok
                /\ is_claim(heap[c])
             THEN [parsed EXCEPT ![c] = claim(parsed[c])]
             ELSE parsed

\* The transactions after a read of ref.hash.
RefHashRead(all, ref) ==
    IF ref.kind = "mutable" THEN [all EXCEPT ![ref.tx] = hash(all[ref.tx])] ELSE all

\* Output.sign(channel, first_input_id) on heap outputs k and c, as far as
\* the heap goes: [ok, err, outs, step], step counting the statements done.
SignedHeap(k, c, first_input_id) ==
    LET o1 == [outs EXCEPT ![k].channel = Some(c)]
        channel_hash == claim_hash(outs[c])
        o2 == [o1 EXCEPT ![k] =
                 [claim(o1[k]) EXCEPT
                    !.script.values.parsed =
                        Some([claim_value(o1[k]) EXCEPT
                                !.signing_channel_hash = channel_hash.val])]]
        first == IF first_input_id # None /\ first_input_id[1] # <<>>
                 THEN Value(first_input_id[1])
                 ELSE FirstInputHash(o2[k])
        digest == sha256(first.val \o channel_hash.val \o to_message_bytes(claim_value(o2[k])))
        o3 == [o2 EXCEPT ![k] =
                 [o2[k] EXCEPT
                    !.script = generate(
                        [o2[k].script EXCEPT
                           !.values.parsed =
                               Some([claim_value(o2[k]) EXCEPT
                                       !.signature =
                                           sign_digest_deterministic(
                                               outs[c].private_key[1], digest)])])]]
    IN  IF ~channel_hash.ok THEN [ok |-> FALSE, err |-> channel_hash.err, outs |-> o1, step |-> 1]
        ELSE IF ~is_claim(outs[k]) THEN [ok |-> FALSE, err |-> "ValueError", outs |-> o1, step |-> 1]
        ELSE IF ~first.ok THEN [ok |-> FALSE, err |-> first.err, outs |-> o2, step |-> 2]
        ELSE IF outs[c].private_key = None
        THEN [ok |-> FALSE, err |-> "AttributeError", outs |-> o2, step |-> 3]
        ELSE [ok |-> TRUE, err |-> "", outs |-> o3, step |-> 4]

\* The transactions after the hash reads of sign: the channel's claim_hash
\* and, with no first_input_id, the first input's txo_ref.hash.
SignedTxs(k, c, first_input_id) ==
    LET s == SignedHeap(k, c, first_input_id)
        t1 == IF is_claim_name(outs[c].script) /\ outs[c].tx_ref # NoRef
              THEN RefHashRead(txs, outs[c].tx_ref) ELSE txs
    IN  IF s.step >= 3 /\ ~(first_input_id # None /\ first_input_id[1] # <<>>)
        THEN RefHashRead(t1, ins[txs[outs[k].tx_ref.tx]._inputs[1]].txo_ref.tx_ref)
        ELSE t1

\* A sign that also resets the owning transaction.
SignThenReset(k, c, first_input_id) ==
    LET s == SignedHeap(k, c, first_input_id)
        t == SignedTxs(k, c, first_input_id)
    IN  [ok |-> s.ok, err |-> s.err, outs |-> s.outs,
         txs |-> IF s.ok /\ outs[k].tx_ref.kind = "mutable"
                 THEN [t EXCEPT ![outs[k].tx_ref.tx] = _reset(t[outs[k].tx_ref.tx])]
                 ELSE t]

\* Output.sign(channel, first_input_id): [ok, err, outs, txs].
sign(k, c, first_input_id) ==
    LET s == SignedHeap(k, c, first_input_id)
    IN  [ok |-> s.ok, err |-> s.err, outs |-> s.outs,
         txs |-> SignedTxs(k, c, first_input_id)]

\* Output.clear_signature(): [ok, err, outs].
clear_signature(k) ==
    LET o1 == [outs EXCEPT ![k].channel = None]
    IN  IF ~is_claim(outs[k]) THEN [ok |-> FALSE, err |-> "ValueError", outs |-> o1]
        ELSE [ok |-> TRUE, err |-> "",
              outs |-> [o1 EXCEPT ![k] =
                          [claim(o1[k]) EXCEPT
                             !.script.values.parsed =
                                 Some(claim_clear_signature(claim_value(o1[k])))]]]

---------------------------------------------------------------------------
(* The values the model draws its inputs from.                             *)

HashA == Rep(170, 32)
HashB == Rep(187, 32)
PubKeyHash == Rep(1, 20)

\* An output of an earlier, already broadcast transaction (immutable ref).
WalletOutput(value, script, h, position, mine) ==
    Output(value, script, TXRefImmutable(h), position, mine)

UnresolvedInput == Input(TXORef(TXRefImmutable(HashA), 3), Some(<<81>>), UINT32_MAX - 1)

SpendInput == spend(WalletOutput(7, pay_pubkey_hash(PubKeyHash), HashB, 1, "True"))

InputTemplates == {create_coinbase, UnresolvedInput}

\* The claim id of the claim created by output 0 of transaction HashB.
ClaimIdB == hash160(HashB \o U32BE(0))

OutputTemplates ==
    {Output(3, pay_claim_name_pubkey_hash(<<110>>, <<8>>, PubKeyHash), NoRef, -1, "None"),
     Output(2, pay_update_claim_pubkey_hash(<<110>>, ClaimIdB, <<9>>, PubKeyHash),
            NoRef, -1, "None")}

\* A legacy transaction on the wire: one input, one output.
LegacyStream ==
    U32LE(1) \o <<1>> \o InputSerialize(UnresolvedInput)
    \o <<1>> \o U64LE(5) \o write_string(P2PKH(PubKeyHash)) \o U32LE(0)

\* The same transaction with the segwit marker, flag and one witness stack.
SegwitStream ==
    U32LE(1) \o <<0, 1>> \o <<1>> \o InputSerialize(UnresolvedInput)
    \o <<1>> \o U64LE(5) \o write_string(P2PKH(PubKeyHash))
    \o <<1>> \o write_string(<<48, 49>>) \o U32LE(0)

Streams == {LegacyStream, SegwitStream}

\* Sequences over S of length lo..hi.
SeqsOf(S, lo, hi) == UNION {[1..n -> S] : n \in lo..hi}

---------------------------------------------------------------------------
(* The transaction life cycle.                                             *)

\* What the last call gave back: the accessor read (op), the heap object it
\* was read on (arg), and the value returned or the error raised.
NoResult == [op |-> "none", arg |-> 0, ok |-> TRUE, val |-> <<>>, err |-> ""]

Returned(op, arg, v) == [op |-> op, arg |-> arg, ok |-> TRUE, val |-> v, err |-> ""]

Raised(op, arg, e) == [op |-> op, arg |-> arg, ok |-> FALSE, val |-> <<>>, err |-> e]

\* BlockchainDB.__init__: no connection, no executor; no executor was ever
\* made, no job submitted, no call issued, and the event loop is not blocked.
NoDB ==
    [executor |-> None, connection |-> None, nexec |-> 0, jobs |-> <<>>,
     calls |-> <<>>, blocked |-> 0]

Init ==
    /\ db = NoDB
    /\ txs = [t \in Txs |-> NoTransaction]
    /\ ins = <<>>
    /\ outs = <<>>
    /\ res = NoResult

\* Transaction(version=..., locktime=...): no raw, nothing to deserialize.
NewTx(t, version, locktime) ==
    /\ ~txs[t].live
    /\ \A u \in 1..(t - 1) : txs[u].live
    /\ txs' = [txs EXCEPT ![t] = NewTransaction(None, version, locktime)]
    /\ res' = NoResult /\ UNCHANGED <<ins, outs>>
    /\ UNCHANGED db

\* Transaction(raw): _raw is kept and deserialize() parses it.
NewTxFromRaw(t, rawbytes) ==
    /\ ~txs[t].live
    /\ \A u \in 1..(t - 1) : txs[u].live
    /\ LET p == ParseTx(rawbytes, 0)
           built == [txs EXCEPT ![t] = NewTransaction(rawbytes, 1, 0)]
       IN  /\ Fits(t, p)
           /\ LET r == DeserializedInto(built, t, p)
              IN  /\ txs' = r.txs
                  /\ ins' = r.ins
                  /\ outs' = r.outs
    /\ res' = NoResult
    /\ UNCHANGED db

\* Input(...), Input.spend(...), Input.create_coinbase(): a new object.
NewInput(txi) ==
    /\ Len(ins) < MaxHeap
    /\ ins' = Append(ins, txi)
    /\ res' = NoResult /\ UNCHANGED <<txs, outs>>
    /\ UNCHANGED db

\* Output(...) and the Output.pay_* factories: a new object.
NewOutput(txo) ==
    /\ Len(outs) < MaxHeap
    /\ outs' = Append(outs, txo)
    /\ res' = NoResult /\ UNCHANGED <<txs, ins>>
    /\ UNCHANGED db

\* Transaction.add_inputs(new_ios)
add_inputs(t, new_ios) ==
    /\ txs[t].live
    /\ Len(txs[t]._inputs) + Len(new_ios) <= MaxIO
    /\ LET a == _add(ins, txs[t]._inputs, new_ios, t)
       IN  /\ ins' = a.heap
           /\ txs' = [txs EXCEPT ![t] =
                        [_reset([txs[t] EXCEPT !._inputs = a.ios]) EXCEPT !.since = "clean"]]
    /\ res' = NoResult /\ UNCHANGED outs
    /\ UNCHANGED db

\* Transaction.add_outputs(new_ios)
add_outputs(t, new_ios) ==
    /\ txs[t].live
    /\ Len(txs[t]._outputs) + Len(new_ios) <= MaxIO
    /\ LET a == _add(outs, txs[t]._outputs, new_ios, t)
       IN  /\ outs' = a.heap
           /\ txs' = [txs EXCEPT ![t] =
                        [_reset([txs[t] EXCEPT !._outputs = a.ios]) EXCEPT !.since = "clean"]]
    /\ res' = NoResult /\ UNCHANGED ins
    /\ UNCHANGED db

\* Reads of tx.raw, tx.raw_sans_segwit, tx.hash, tx.id: they fill caches.
ReadRaw(t) ==
    /\ txs[t].live
    /\ txs' = [txs EXCEPT ![t] = raw(txs[t])]
    /\ res' = NoResult /\ UNCHANGED <<ins, outs>>
    /\ UNCHANGED db

ReadRawSansSegwit(t) ==
    /\ txs[t].live
    /\ txs' = [txs EXCEPT ![t] = raw_sans_segwit(txs[t])]
    /\ res' = NoResult /\ UNCHANGED <<ins, outs>>
    /\ UNCHANGED db

ReadHash(t) ==
    /\ txs[t].live
    /\ txs' = [txs EXCEPT ![t] = hash(txs[t])]
    /\ res' = NoResult /\ UNCHANGED <<ins, outs>>
    /\ UNCHANGED db

ReadId(t) ==
    /\ txs[t].live
    /\ txs' = [txs EXCEPT ![t] = id(txs[t])]
    /\ res' = NoResult /\ UNCHANGED <<ins, outs>>
    /\ UNCHANGED db

\* tx.deserialize(stream) on a live transaction; with no stream argument
\* (s = None) the cached _raw, if any, is parsed again.
Deserialize(t, s) ==
    /\ txs[t].live
    /\ LET bytes == IF s = None THEN txs[t]._raw ELSE s[1]
       IN  /\ bytes # None
           /\ CanDeserialize(t, bytes)
           /\ LET r == deserialize(t, bytes)
              IN  /\ txs' = [r.txs EXCEPT ![t].since = "other"]
                  /\ ins' = r.ins
                  /\ outs' = r.outs
    /\ res' = NoResult
    /\ UNCHANGED db

ReadTxs == 1..NumRead

Next ==
    \/ \E t \in ReadTxs, vl \in {<<1, 0>>, <<2, 7>>} : NewTx(t, vl[1], vl[2])
    \/ \E t \in ReadTxs, s \in Streams : NewTxFromRaw(t, s)
    \/ \E txi \in InputTemplates : NewInput(txi)
    \/ \E txo \in OutputTemplates : NewOutput(txo)
    \/ \E t \in ReadTxs, new \in SeqsOf(1..Len(ins), 0, MaxIO) : add_inputs(t, new)
    \/ \E t \in ReadTxs, new \in SeqsOf(1..Len(outs), 0, MaxIO) : add_outputs(t, new)
    \/ \E t \in ReadTxs : ReadRaw(t)
    \/ \E t \in ReadTxs : ReadRawSansSegwit(t)
    \/ \E t \in ReadTxs : ReadHash(t)
    \/ \E t \in ReadTxs : ReadId(t)
    \/ \E t \in ReadTxs, s \in {None} \cup {Some(x) : x \in Streams} : Deserialize(t, s)

Spec == Init /\ [][Next]_vars

\* Building only: several transactions, objects made and added, no reads.
NextAdd ==
    \/ \E t \in Txs : NewTx(t, 1, 0)
    \/ \E txi \in InputTemplates : NewInput(txi)
    \/ \E txo \in OutputTemplates : NewOutput(txo)
    \/ \E t \in Txs, new \in SeqsOf(1..Len(ins), 0, MaxIO) : add_inputs(t, new)
    \/ \E t \in Txs, new \in SeqsOf(1..Len(outs), 0, MaxIO) : add_outputs(t, new)

SpecAdd == Init /\ [][NextAdd]_vars

---------------------------------------------------------------------------
(* C1.  Position consistency.                                              *)

LiveTxs == {t \in Txs : txs[t].live}

\* C1: after any add_inputs / add_outputs calls, whatever objects they were
\* given, every element a transaction holds has position equal to its index
\* and tx_ref equal to that transaction's ref.
PositionConsistency ==
    \A t \in LiveTxs :
        /\ \A i \in 1..Len(txs[t]._inputs) :
              /\ ins[txs[t]._inputs[i]].position = i - 1
              /\ ins[txs[t]._inputs[i]].tx_ref = TXRefMutable(t)
        /\ \A i \in 1..Len(txs[t]._outputs) :
              /\ outs[txs[t]._outputs[i]].position = i - 1
              /\ outs[txs[t]._outputs[i]].tx_ref = TXRefMutable(t)

---------------------------------------------------------------------------
(* C3.  add_inputs / add_outputs reset the caches.                         *)

\* C3: from the last add_inputs / add_outputs on, through any reads of raw,
\* raw_sans_segwit, hash and id, a read of tx.raw returns the canonical
\* serialization of the current version, inputs, outputs and locktime.
RawCanonicalAfterAdd ==
    \A t \in LiveTxs :
        txs[t].since = "clean" =>
            raw_value(txs[t]) = _serialize(txs[t], TRUE, FALSE)

\* A transaction built from segwit bytes, then added to, then read: its
\* cached raw is the one written after the add.
RawReadAfterAdd ==
    \E t \in LiveTxs :
        /\ txs[t].since = "clean"
        /\ txs[t].is_segwit_flag = 1
        /\ txs[t]._raw # None
        /\ txs[t]._hash # None
        /\ Len(txs[t]._outputs) = 2

---------------------------------------------------------------------------
(* C4.  hash and id against raw_sans_segwit.                               *)

\* C4: in every state of a transaction built by the constructor,
\* deserialize, add_inputs and add_outputs, tx.hash is the double SHA-256 of
\* the tx.raw_sans_segwit read in that state and tx.id is the hex of that
\* hash reversed.
HashOfRawSansSegwit ==
    \A t \in LiveTxs :
        /\ hash_value(txs[t]) = double_sha256(raw_sans_segwit_value(txs[t]))
        /\ id_value(txs[t]) = Hexlify(Reverse(hash_value(txs[t])))

---------------------------------------------------------------------------
(* C5.  raw against raw_sans_segwit under the segwit flag.                 *)

\* C5 as stated: whenever is_segwit_flag is set, tx.raw equals
\* tx.raw_sans_segwit.
SegwitRawEqualsSansSegwit ==
    \A t \in LiveTxs :
        txs[t].is_segwit_flag # 0 =>
            raw_value(txs[t]) = raw_sans_segwit_value(txs[t])

\* C5: when is_segwit_flag is set and neither raw cache is filled (the
\* transaction was parsed from a stream handed to deserialize, or an add has
\* reset it), tx.raw equals tx.raw_sans_segwit and is the witness-free
\* serialization of version, inputs, outputs and locktime.
SegwitRawRegenerated ==
    \A t \in LiveTxs :
        (/\ txs[t].is_segwit_flag # 0
         /\ txs[t]._raw = None
         /\ txs[t]._raw_sans_segwit = None) =>
            /\ raw_value(txs[t]) = raw_sans_segwit_value(txs[t])
            /\ raw_value(txs[t]) = _serialize(txs[t], TRUE, TRUE)

\* A transaction holding parsed witnesses whose raw is yet to be written.
SegwitParsedNoCache ==
    \E t \in LiveTxs :
        /\ txs[t].is_segwit_flag = 1
        /\ txs[t].witnesses # <<>>
        /\ txs[t]._raw = None
        /\ txs[t]._raw_sans_segwit = None
        /\ txs[t]._inputs # <<>>

---------------------------------------------------------------------------
(* C10.  claim_hash and claim_id.                                          *)

\* The claim id carried by update and support scripts below.
ClaimIdA == Rep(205, 20)

\* Outputs of every script kind, fresh ones and ones of an earlier
\* transaction.
ClaimOutputs ==
    {Output(3, pay_claim_name_pubkey_hash(<<110>>, <<8>>, PubKeyHash), NoRef, -1, "None"),
     Output(2, pay_update_claim_pubkey_hash(<<110>>, ClaimIdA, <<9>>, PubKeyHash),
            NoRef, -1, "None"),
     Output(1, pay_support_pubkey_hash(<<110>>, ClaimIdB, PubKeyHash), NoRef, -1, "None"),
     Output(5, pay_pubkey_hash(PubKeyHash), NoRef, -1, "None"),
     Output(0, OutputScript(<<OP_RETURN, 1, 7>>), NoRef, -1, "None"),
     WalletOutput(3, pay_claim_name_pubkey_hash(<<110>>, <<8>>, PubKeyHash), HashB, 1, "True")}

\* The transaction whose hash a read of txo.tx_ref.hash fills in, if any.
HashRead(txo) ==
    IF is_claim_name(txo.script) /\ txo.tx_ref.kind = "mutable"
    THEN [txs EXCEPT ![txo.tx_ref.tx] = hash(txs[txo.tx_ref.tx])]
    ELSE txs

\* txo.claim_hash on heap output k
ReadClaimHash(k) ==
    /\ LET r == claim_hash(outs[k])
       IN  res' = IF r.ok THEN Returned("claim_hash", k, r.val)
                  ELSE Raised("claim_hash", k, r.err)
    /\ txs' = HashRead(outs[k])
    /\ UNCHANGED <<ins, outs>>
    /\ UNCHANGED db

\* txo.claim_id on heap output k
ReadClaimId(k) ==
    /\ LET r == claim_id(outs[k])
       IN  res' = IF r.ok THEN Returned("claim_id", k, r.val)
                  ELSE Raised("claim_id", k, r.err)
    /\ txs' = HashRead(outs[k])
    /\ UNCHANGED <<ins, outs>>
    /\ UNCHANGED db

NextClaim ==
    \/ \E t \in ReadTxs, vl \in {<<1, 0>>, <<2, 7>>} : NewTx(t, vl[1], vl[2])
    \/ \E txo \in ClaimOutputs : NewOutput(txo)
    \/ \E t \in ReadTxs, new \in SeqsOf(1..Len(outs), 0, MaxIO) : add_outputs(t, new)
    \/ \E k \in 1..Len(outs) : ReadClaimHash(k)
    \/ \E k \in 1..Len(outs) : ReadClaimId(k)

SpecClaim == Init /\ [][NextClaim]_vars

\* The hash of the transaction that holds txo, as tx.hash reads it.
OwningTxHash(txo) ==
    IF txo.tx_ref.kind = "mutable" THEN hash_value(txs[txo.tx_ref.tx]) ELSE txo.tx_ref.hash

\* C10: for an output held by a transaction, claim_hash of a claim-name
\* script is hash160(tx hash ++ big-endian u32 position); of an update-claim
\* or support-claim script it is script.values.claim_id; for any other
\* script claim_hash and claim_id raise; and claim_id, whenever claim_hash is
\* defined, is the hex of claim_hash reversed.
ClaimHashRules ==
    res.op \in {"claim_hash", "claim_id"} =>
        LET txo == outs[res.arg]
            expected ==
                IF is_claim_name(txo.script)
                THEN hash160(OwningTxHash(txo) \o U32BE(txo.position))
                ELSE txo.script.values.claim_id
        IN  /\ (txo.script.kind \in {"update_claim", "support_claim"}
                \/ (txo.script.kind = "claim_name" /\ txo.tx_ref # NoRef)) =>
                   /\ res.ok
                   /\ res.op = "claim_hash" => res.val = expected
                   /\ res.op = "claim_id" => res.val = Hexlify(Reverse(expected))
            /\ txo.script.kind \notin {"claim_name", "update_claim", "support_claim"} =>
                   ~res.ok /\ res.err = "ValueError"

\* claim_id read on a claim-name output at position 1 of a transaction.
ClaimIdReadOnSecondOutput ==
    /\ res.op = "claim_id"
    /\ res.ok
    /\ is_claim_name(outs[res.arg].script)
    /\ outs[res.arg].tx_ref.kind = "mutable"
    /\ outs[res.arg].position = 1

---------------------------------------------------------------------------
(* C2, C6.  Serialize, then deserialize.                                   *)

CodecInputs == {create_coinbase, UnresolvedInput, SpendInput}

CodecOutputs ==
    {Output(3, pay_claim_name_pubkey_hash(<<110>>, <<8>>, PubKeyHash), NoRef, -1, "None"),
     Output(5, pay_pubkey_hash(PubKeyHash), NoRef, -1, "None"),
     Output(0, OutputScript(<<OP_RETURN, 1, 7>>), NoRef, -1, "None")}

\* Transaction(version, locktime) with txis and txos added: (txs, ins, outs).
Built(version, locktime, txis, txos) ==
    LET ai == _add(txis, <<>>, [i \in 1..Len(txis) |-> i], 1)
        ao == _add(txos, <<>>, [i \in 1..Len(txos) |-> i], 1)
    IN  [txs |-> [t \in Txs |->
                    IF t = 1
                    THEN [NewTransaction(None, version, locktime) EXCEPT
                            !._inputs = ai.ios, !._outputs = ao.ios, !.since = "clean"]
                    ELSE NoTransaction],
         ins |-> ai.heap, outs |-> ao.heap]

\* The same content on the wire in segwit form: marker, flag, and after the
\* outputs one witness stack of one item per input.
SegwitWire(version, locktime, txis, txos) ==
    U32LE(version) \o <<0, 1>>
    \o write_compact_size(Len(txis))
    \o Flatten([i \in 1..Len(txis) |-> InputSerialize(txis[i])])
    \o write_compact_size(Len(txos))
    \o Flatten([i \in 1..Len(txos) |-> OutputSerialize(txos[i])])
    \o Flatten([i \in 1..Len(txis) |-> <<1>> \o write_string(<<48, 49>>)])
    \o U32LE(locktime)

\* Transaction(raw) for raw bytes that parse: (txs, ins, outs).
Received(rawbytes) ==
    DeserializedOver([t \in Txs |-> IF t = 1 THEN NewTransaction(rawbytes, 1, 0)
                                    ELSE NoTransaction],
                     <<>>, <<>>, 1, ParseTx(rawbytes, 0))

\* Transaction 1 is T: built through the mutation API, or parsed from
\* segwit bytes.
InitCodec ==
    /\ db = NoDB
    /\ \E version \in {1, 2}, locktime \in {0, 7}, segwit \in BOOLEAN,
       txis \in SeqsOf(CodecInputs, 0, MaxIO), txos \in SeqsOf(CodecOutputs, 0, MaxIO) :
        LET T == IF segwit THEN Received(SegwitWire(version, locktime, txis, txos))
                 ELSE Built(version, locktime, txis, txos)
        IN  /\ txs = T.txs
            /\ ins = T.ins
            /\ outs = T.outs
            /\ res = NoResult

\* Transaction(bytes) as transaction 2, for bytes just read from T.
Reparsed(op, after, bytes) ==
    LET p == ParseTx(bytes, 0)
        r == DeserializedInto([after EXCEPT ![2] = NewTransaction(bytes, 1, 0)], 2, p)
    IN  IF p.ok
        THEN /\ txs' = r.txs
             /\ ins' = r.ins
             /\ outs' = r.outs
             /\ res' = Returned(op, 2, <<>>)
        ELSE /\ txs' = after
             /\ UNCHANGED <<ins, outs>>
             /\ res' = Raised(op, 2, "struct.error")

\* Transaction(T.raw)
RoundTrip ==
    /\ txs[1].live /\ ~txs[2].live /\ res = NoResult
    /\ Reparsed("round_trip", [txs EXCEPT ![1] = raw(txs[1])], raw_value(txs[1]))
    /\ UNCHANGED db

\* Transaction(T.raw_sans_segwit)
SansSegwitRoundTrip ==
    /\ txs[1].live /\ ~txs[2].live /\ res = NoResult
    /\ Reparsed("sans_segwit_round_trip", [txs EXCEPT ![1] = raw_sans_segwit(txs[1])],
                raw_sans_segwit_value(txs[1]))
    /\ UNCHANGED db

NextCodec == RoundTrip \/ SansSegwitRoundTrip

SpecCodec == InitCodec /\ [][NextCodec]_vars

\* What the wire carries of an input and of an output.
InputFields(txi) ==
    <<txi.txo_ref.tx_ref.hash, txi.txo_ref.position,
      IF txi.coinbase # None THEN txi.coinbase ELSE txi.script, txi.sequence>>

OutputFields(txo) == <<txo.amount, txo.script.source>>

SameSerializedFields(a, b) ==
    /\ a.version = b.version
    /\ a.locktime = b.locktime
    /\ [i \in 1..Len(a._inputs) |-> InputFields(ins[a._inputs[i]])]
         = [i \in 1..Len(b._inputs) |-> InputFields(ins[b._inputs[i]])]
    /\ [i \in 1..Len(a._outputs) |-> OutputFields(outs[a._outputs[i]])]
         = [i \in 1..Len(b._outputs) |-> OutputFields(outs[b._outputs[i]])]

\* C2 as stated: for any T, zero inputs included, deserializing T's
\* serialization gives a transaction with the same version, locktime,
\* inputs and outputs.
RoundTripAnyTransaction ==
    res.op = "round_trip" =>
        res.ok /\ SameSerializedFields(txs[1], txs[2])

\* C2: for any T with at least one input, deserializing T's serialization
\* gives a transaction with the same version, locktime, ordered inputs
\* (previous hash, position, script or coinbase bytes, sequence) and ordered
\* outputs (amount, script bytes).
RoundTripWithInputs ==
    (res.op = "round_trip" /\ Len(txs[1]._inputs) >= 1) =>
        res.ok /\ SameSerializedFields(txs[1], txs[2])

\* A round trip of a transaction with two inputs, a coinbase among them,
\* and two outputs.
RoundTripDone ==
    /\ res.op = "round_trip"
    /\ res.ok
    /\ Len(txs[2]._inputs) = 2
    /\ Len(txs[2]._outputs) = 2
    /\ \E i \in 1..2 : is_coinbase(ins[txs[2]._inputs[i]])
    /\ \E i \in 1..2 : ~is_coinbase(ins[txs[2]._inputs[i]])

\* C6 as stated: for every segwit-parsed T, raw_sans_segwit has no marker,
\* flag or witness bytes and deserializes to a transaction equal to T with
\* is_segwit_flag 0.
SansSegwitAnyTransaction ==
    (res.op = "sans_segwit_round_trip" /\ txs[1].is_segwit_flag = 1) =>
        /\ res.ok
        /\ SameSerializedFields(txs[1], txs[2])
        /\ txs[2].is_segwit_flag = 0
        /\ txs[2].witnesses = <<>>
        /\ ParseTx(txs[2]._raw, 0).pos = Len(txs[2]._raw)

\* C6: for every segwit-parsed T with at least one input, raw_sans_segwit
\* has no marker, flag or witness bytes (it parses to its end as a legacy
\* transaction) and deserializes to a transaction equal to T on version,
\* locktime, inputs and outputs whose is_segwit_flag is 0.
SansSegwitWithInputs ==
    (/\ res.op = "sans_segwit_round_trip"
     /\ txs[1].is_segwit_flag = 1
     /\ Len(txs[1]._inputs) >= 1) =>
        /\ res.ok
        /\ SameSerializedFields(txs[1], txs[2])
        /\ txs[2].is_segwit_flag = 0
        /\ txs[2].witnesses = <<>>
        /\ ParseTx(txs[2]._raw, 0).pos = Len(txs[2]._raw)

\* The sans-segwit bytes of a segwit-parsed T with witnesses, parsed again.
SansSegwitDone ==
    /\ res.op = "sans_segwit_round_trip"
    /\ res.ok
    /\ txs[1].is_segwit_flag = 1
    /\ Len(txs[1].witnesses) = 2
    /\ Len(txs[1]._raw) > Len(txs[2]._raw)
    /\ Len(txs[2]._outputs) = 2

---------------------------------------------------------------------------
(* C7, C8, C9.  Amounts, balance and abandons of a built transaction.      *)

\* Spends of wallet outputs of each claim kind and ownership annotation,
\* and an input whose previous output is not attached.
AcctInputs ==
    {UnresolvedInput,
     spend(WalletOutput(3, pay_claim_name_pubkey_hash(<<110>>, <<8>>, PubKeyHash),
                        HashB, 0, "True")),
     spend(WalletOutput(3, pay_claim_name_pubkey_hash(<<110>>, <<8>>, PubKeyHash),
                        HashB, 0, "False")),
     spend(WalletOutput(4, pay_update_claim_pubkey_hash(<<110>>, ClaimIdB, <<9>>, PubKeyHash),
                        HashA, 0, "True")),
     spend(WalletOutput(6, pay_support_pubkey_hash(<<110>>, ClaimIdB, PubKeyHash),
                        HashA, 1, "True")),
     spend(WalletOutput(7, pay_pubkey_hash(PubKeyHash), HashB, 1, "True")),
     spend(WalletOutput(9, pay_pubkey_hash(PubKeyHash), HashB, 2, "None"))}

AcctOutputs ==
    {Output(2, pay_update_claim_pubkey_hash(<<110>>, ClaimIdB, <<9>>, PubKeyHash),
            NoRef, -1, "True"),
     Output(2, pay_update_claim_pubkey_hash(<<110>>, ClaimIdB, <<9>>, PubKeyHash),
            NoRef, -1, "False"),
     Output(2, pay_update_claim_pubkey_hash(<<110>>, ClaimIdA, <<9>>, PubKeyHash),
            NoRef, -1, "True"),
     Output(5, pay_pubkey_hash(PubKeyHash), NoRef, -1, "True"),
     Output(1, pay_pubkey_hash(PubKeyHash), NoRef, -1, "None")}

\* Transaction 1 is built from annotated inputs and outputs.
InitAcct ==
    /\ db = NoDB
    /\ \E txis \in SeqsOf(AcctInputs, 0, MaxIO), txos \in SeqsOf(AcctOutputs, 0, MaxIO) :
        LET T == Built(1, 0, txis, txos)
        IN  /\ txs = T.txs
            /\ ins = T.ins
            /\ outs = T.outs
            /\ res = NoResult

\* tx.inputs[i - 1].amount; the result's arg is i.
ReadAmount(t, i) ==
    /\ txs[t].live
    /\ LET r == amount(inputs(txs[t])[i])
       IN  res' = IF r.ok THEN Returned("amount", i, r.val) ELSE Raised("amount", i, r.err)
    /\ UNCHANGED <<txs, ins, outs>>
    /\ UNCHANGED db

ReadInputSum(t) ==
    /\ txs[t].live
    /\ res' = Returned("input_sum", 0, input_sum(txs[t]))
    /\ UNCHANGED <<txs, ins, outs>>
    /\ UNCHANGED db

ReadFee(t) ==
    /\ txs[t].live
    /\ res' = Returned("fee", 0, fee(txs[t]))
    /\ UNCHANGED <<txs, ins, outs>>
    /\ UNCHANGED db

ReadNetAccountBalance(t) ==
    /\ txs[t].live
    /\ LET r == net_account_balance(txs[t])
       IN  res' = IF r.ok THEN Returned("net_account_balance", 0, r.val)
                  ELSE Raised("net_account_balance", 0, r.err)
    /\ UNCHANGED <<txs, ins, outs>>
    /\ UNCHANGED db

\* list(tx.my_abandon_outputs)
ReadMyAbandonOutputs(t) ==
    /\ txs[t].live
    /\ res' = Returned("my_abandon_outputs", 0, my_abandon_outputs(txs[t]))
    /\ UNCHANGED <<txs, ins, outs>>
    /\ UNCHANGED db

NextAcct ==
    \/ \E i \in 1..Len(txs[1]._inputs) : ReadAmount(1, i)
    \/ ReadInputSum(1)
    \/ ReadFee(1)
    \/ ReadNetAccountBalance(1)
    \/ ReadMyAbandonOutputs(1)

SpecAcct == InitAcct /\ [][NextAcct]_vars

\* f(1) + ... + f(n)
IndexSum(n, f(_)) ==
    LET RECURSIVE go(_)
        go(k) == IF k = 0 THEN 0 ELSE go(k - 1) + f(k)
    IN  go(n)

\* Of transaction 1: input i, output j, the inputs with no spent output
\* attached, and the spent output of a resolved input.
TxIn(i) == ins[txs[1]._inputs[i]]
TxOut(j) == outs[txs[1]._outputs[j]]
Unresolved == {i \in 1..Len(txs[1]._inputs) : TxIn(i).txo_ref.txo = None}
SpentBy(i) == TxIn(i).txo_ref.txo[1]

ResolvedAmountSum ==
    IndexSum(Len(txs[1]._inputs), LAMBDA i : IF i \in Unresolved THEN 0 ELSE SpentBy(i).amount)

OutputAmountSum == IndexSum(Len(txs[1]._outputs), LAMBDA j : TxOut(j).amount)

\* Some annotation net_account_balance reads is None.
AnnotationUnset ==
    \/ \E i \in 1..Len(txs[1]._inputs) : i \notin Unresolved /\ SpentBy(i).is_my_output = "None"
    \/ \E j \in 1..Len(txs[1]._outputs) : TxOut(j).is_my_output = "None"

MyBalance ==
    IndexSum(Len(txs[1]._outputs),
             LAMBDA j : IF TxOut(j).is_my_output = "True" THEN TxOut(j).amount ELSE 0)
    - IndexSum(Len(txs[1]._inputs),
               LAMBDA i : IF i \notin Unresolved /\ SpentBy(i).is_my_output = "True"
                          THEN SpentBy(i).amount ELSE 0)

\* C7 as stated: with an unresolved input in the transaction, Input.amount
\* of that input, input_sum, fee and net_account_balance all raise.
UnresolvedInputFailsEverywhere ==
    Unresolved # {} =>
        /\ (res.op = "amount" /\ res.arg \in Unresolved) => ~res.ok
        /\ res.op \in {"input_sum", "fee", "net_account_balance"} => ~res.ok

\* C7: with an unresolved input in the transaction, Input.amount of that
\* input raises ValueError, while input_sum, fee and net_account_balance
\* leave the unresolved inputs out: input_sum returns the sum over the
\* resolved inputs, fee that sum minus the output sum, and
\* net_account_balance raises only for an unset annotation.
UnresolvedInputSkippedBySums ==
    Unresolved # {} =>
        /\ (res.op = "amount" /\ res.arg \in Unresolved) =>
              ~res.ok /\ res.err = "ValueError"
        /\ res.op = "input_sum" => res.ok /\ res.val = ResolvedAmountSum
        /\ res.op = "fee" => res.ok /\ res.val = ResolvedAmountSum - OutputAmountSum
        /\ res.op = "net_account_balance" => (res.ok <=> ~AnnotationUnset)

\* fee read on a transaction with one unresolved and one resolved input.
FeeReadWithUnresolvedInput ==
    /\ res.op = "fee"
    /\ res.ok
    /\ Unresolved # {}
    /\ \E i \in 1..Len(txs[1]._inputs) : i \notin Unresolved
    /\ txs[1]._outputs # <<>>

\* C8: net_account_balance returns the sum of the amounts of the outputs
\* with is_my_output True minus the sum of the amounts of the inputs whose
\* spent output is mine when every annotation it reads is True or False, and
\* raises when an output, or the spent output of a resolved input, has its
\* annotation None.
NetAccountBalanceRule ==
    res.op = "net_account_balance" =>
        IF AnnotationUnset
        THEN ~res.ok /\ res.err = "ValueError"
        ELSE res.ok /\ res.val = MyBalance

\* A balance read with an input of mine, an input not mine and an output of
\* mine.
BalanceReadOnMixedOwnership ==
    /\ res.op = "net_account_balance"
    /\ res.ok
    /\ res.val < 0
    /\ \E i \in 1..Len(txs[1]._inputs) : i \notin Unresolved /\ SpentBy(i).is_my_output = "False"
    /\ \E j \in 1..Len(txs[1]._outputs) : TxOut(j).is_my_output = "True"

\* The claim hash of a spent claim-involved output.
SpentClaimHash(a) ==
    IF a.script.kind = "claim_name"
    THEN hash160(a.tx_ref.hash \o U32BE(a.position))
    ELSE a.script.values.claim_id

\* Transaction 1 has an update-claim output of mine for the claim of a.
UpdatedHere(a) ==
    \E j \in 1..Len(txs[1]._outputs) :
        /\ TxOut(j).is_my_output = "True"
        /\ TxOut(j).script.kind = "update_claim"
        /\ TxOut(j).script.values.claim_id = SpentClaimHash(a)

\* The spent outputs, in input order, that are resolved, mine,
\* claim-involved and not Excluded.
AbandonsExcept(Excluded(_)) ==
    LET n == Len(txs[1]._inputs)
        keep == {i \in 1..n :
                    /\ i \notin Unresolved
                    /\ SpentBy(i).is_my_output = "True"
                    /\ SpentBy(i).script.kind \in {"claim_name", "update_claim", "support_claim"}
                    /\ ~Excluded(SpentBy(i))}
        RECURSIVE go(_)
        go(i) == IF i > n THEN <<>>
                 ELSE IF i \in keep THEN <<SpentBy(i)>> \o go(i + 1)
                 ELSE go(i + 1)
    IN  go(1)

\* C9 as stated: my_abandon_outputs yields the resolved, owned,
\* claim-involved spent outputs except those whose claim id is that of an
\* owned update-claim output of the same transaction.
AbandonsExceptUpdated ==
    res.op = "my_abandon_outputs" =>
        res.val = AbandonsExcept(UpdatedHere)

\* C9: my_abandon_outputs yields the resolved, owned, claim-involved spent
\* outputs except the claim-name and update-claim ones whose claim id is
\* that of an owned update-claim output of the same transaction; a spent
\* support is yielded whatever the transaction updates.
AbandonsExceptUpdatedClaims ==
    res.op = "my_abandon_outputs" =>
        res.val = AbandonsExcept(LAMBDA a : a.script.kind # "support_claim" /\ UpdatedHere(a))

\* Abandons read on a transaction that spends my claim-name output and a
\* support of mine, and updates that claim: only the support is yielded.
AbandonsReadWithUpdate ==
    /\ res.op = "my_abandon_outputs"
    /\ Len(res.val) = 1
    /\ res.val[1].script.kind = "support_claim"
    /\ \E i \in 1..Len(txs[1]._inputs) :
          /\ i \notin Unresolved
          /\ SpentBy(i).script.kind = "claim_name"
          /\ SpentBy(i).is_my_output = "True"
          /\ UpdatedHere(SpentBy(i))


---------------------------------------------------------------------------
(* Signing.  A channel that holds its key, and a transaction whose two     *)
(* outputs are a new stream claim and an update parsed with a payload of   *)
(* the old schema.                                                         *)

\* A channel claim: the message is the channel tag and the public key.
ChannelPayload(private_key) == to_bytes(Claim(<<2>> \o to_der(private_key), None, None, None))

\* A stream claim: the message is the stream tag and the title.
StreamMessages == {<<1, 8>>, <<1, 9>>}

\* A channel of an earlier transaction after generate_channel_private_key:
\* its claim is parsed and carries the public key of the key it holds.
ChannelA ==
    [claim(WalletOutput(1, pay_claim_name_pubkey_hash(<<99>>, ChannelPayload(1), PubKeyHash),
                        HashB, 0, "True"))
        EXCEPT !.private_key = Some(1)]

StreamClaim ==
    Output(3, pay_claim_name_pubkey_hash(<<110>>, to_bytes(Claim(<<1, 8>>, None, None, None)),
                                         PubKeyHash), NoRef, -1, "None")

\* An update whose payload is of the old schema, signed by some channel.
LegacyClaim ==
    Output(2, pay_update_claim_pubkey_hash(
                  <<111>>, ClaimIdB,
                  <<123>> \o Rep(204, 20) \o Rep(17, 64) \o <<1, 9>>, PubKeyHash),
           NoRef, -1, "None")

Channels == {1}

Signables == {2, 3}

\* The id of the output UnresolvedInput spends, as a first_input_id.
OverrideId == HashA \o U32LE(3)

InitSign ==
    /\ db = NoDB
    /\ \E first \in {<<1>>, <<2>>} :
          LET i == _add(<<UnresolvedInput, SpendInput>>, <<>>, first, 1)
              o == _add(<<ChannelA, StreamClaim, LegacyClaim>>, <<>>, <<2, 3>>, 1)
          IN  /\ ins = i.heap
              /\ outs = o.heap
              /\ txs = [t \in Txs |->
                          IF t = 1
                          THEN [NewTransaction(None, 1, 0) EXCEPT
                                  !._inputs = i.ios, !._outputs = o.ios]
                          ELSE NoTransaction]
    /\ res = NoResult

\* txo.sign(channel, first_input_id)
Sign(k, c, first_input_id) ==
    LET r == sign(k, c, first_input_id)
    IN  /\ outs' = r.outs
        /\ txs' = r.txs
        /\ res' = IF r.ok THEN Returned("sign", <<k, c, first_input_id>>, None)
                  ELSE Raised("sign", <<k, c, first_input_id>>, r.err)
        /\ UNCHANGED ins
    /\ UNCHANGED db

\* txo.clear_signature()
ClearSignature(k) ==
    LET r == clear_signature(k)
    IN  /\ outs' = r.outs
        /\ res' = IF r.ok THEN Returned("clear_signature", <<k>>, None)
                  ELSE Raised("clear_signature", <<k>>, r.err)
        /\ UNCHANGED <<txs, ins>>
    /\ UNCHANGED db

\* txo.claim.stream.title = ...: the caller edits the parsed message.
SetMessage(k, message) ==
    /\ is_claim(outs[k])
    /\ claim_value(outs[k]).message # message
    /\ outs' = [outs EXCEPT ![k] =
                  [claim(outs[k]) EXCEPT
                     !.script.values.parsed =
                         Some([claim_value(outs[k]) EXCEPT !.message = message])]]
    /\ res' = NoResult
    /\ UNCHANGED <<txs, ins>>
    /\ UNCHANGED db

\* txo.is_signed_by(channel, ledger)
IsSignedBy(k, c, ledger) ==
    LET r == is_signed_by(outs[k], outs[c], ledger)
    IN  /\ outs' = IsSignedByHeap(outs, k, c, ledger)
        /\ res' = IF r.ok THEN Returned("is_signed_by", <<k, c, ledger>>, r.val)
                  ELSE Raised("is_signed_by", <<k, c, ledger>>, r.err)
        /\ UNCHANGED <<txs, ins>>
    /\ UNCHANGED db

Ledgers == {None, Some("ledger")}

NextSign ==
    \/ \E k \in Signables, c \in Channels, f \in {None, Some(OverrideId)} : Sign(k, c, f)
    \/ \E k \in Signables : ClearSignature(k)
    \/ \E k \in Signables, m \in StreamMessages : SetMessage(k, m)
    \/ \E k \in Signables, c \in Channels, l \in Ledgers : IsSignedBy(k, c, l)

SpecSign == InitSign /\ [][NextSign]_vars


---------------------------------------------------------------------------
(* C11.  sign, then is_signed_by.                                          *)

\* The output with the message of its claim replaced.
WithMessage(txo, message) ==
    [claim(txo) EXCEPT
       !.script.values.parsed = Some([claim_value(txo) EXCEPT !.message = message])]

\* sign was given no first_input_id, or the id of the transaction's own
\* first input.
SignedOverOwnInput(txo, first_input_id) ==
    \/ first_input_id = None
    \/ first_input_id[1] = FirstInputHash(txo).val

---------------------------------------------------------------------------
(* C12.  Signing transitions and the script bytes.                         *)

\* claim.is_signed
IsSigned(txo) == claim_value(txo).signature # None

\* The script bytes are the ones generate() writes for the current payload.
ScriptEncodesPayload(txo) == txo.script.source = generate(claim(txo).script).source

\* C12: every step that takes an output from unsigned to signed or from
\* signed to unsigned leaves that output's script bytes encoding its current
\* payload, and leaves the script bytes of every other output as they were.
SigningTransitionsRegenerate ==
    [][\A k \in Signables :
          IsSigned(outs[k]) # IsSigned(outs'[k]) =>
              /\ ScriptEncodesPayload(outs'[k])
              /\ \A j \in Signables \ {k} :
                    outs'[j].script.source = outs[j].script.source]_vars


---------------------------------------------------------------------------
(* C13.  Signing against the transaction's caches.                         *)

\* A transaction that spends one output and holds the stream claim; the
\* old-schema update is yet to be added.
InitSignCache ==
    /\ db = NoDB
    /\ LET i == _add(<<UnresolvedInput, SpendInput>>, <<>>, <<2>>, 1)
           o == _add(<<ChannelA, StreamClaim, LegacyClaim>>, <<>>, <<2>>, 1)
       IN  /\ ins = i.heap
           /\ outs = o.heap
           /\ txs = [t \in Txs |->
                       IF t = 1
                       THEN [NewTransaction(None, 1, 0) EXCEPT
                               !._inputs = i.ios, !._outputs = o.ios]
                       ELSE NoTransaction]
    /\ res = NoResult

\* The stream claim is signed and cleared while raw, hash and id are read
\* and inputs and outputs are added.
NextSignCache ==
    \/ Sign(2, 1, None)
    \/ ClearSignature(2)
    \/ \E t \in ReadTxs : ReadRaw(t)
    \/ \E t \in ReadTxs : ReadHash(t)
    \/ \E t \in ReadTxs : ReadId(t)
    \/ \E t \in ReadTxs, new \in SeqsOf(1..Len(ins), 0, MaxIO) : add_inputs(t, new)
    \/ \E t \in ReadTxs, new \in SeqsOf({3}, 0, MaxIO) : add_outputs(t, new)

SpecSignCache == InitSignCache /\ [][NextSignCache]_vars

\* The cached raw is not the serialization of the transaction as it is now.
StaleRaw(tx) == tx._raw # None /\ tx._raw # _serialize(tx, TRUE, FALSE)

\* C13: a sign or clear_signature step leaves every cached raw, hash and id
\* of the owning transaction returning what it returned before; a cached raw
\* that differs from the current serialization stays as it is until an
\* add_inputs / add_outputs call clears it; and a raw written after that is
\* the serialization of the outputs as they then are.
CachesSurviveSigning ==
    [][\A t \in LiveTxs :
          /\ res'.op \in {"sign", "clear_signature"} =>
                /\ txs[t]._raw # None => raw_value(txs[t])' = raw_value(txs[t])
                /\ txs[t]._hash # None => hash_value(txs[t])' = hash_value(txs[t])
                /\ txs[t]._id # None => id_value(txs[t])' = id_value(txs[t])
          /\ StaleRaw(txs[t]) =>
                \/ txs'[t]._raw = txs[t]._raw
                \/ txs'[t]._raw = None /\ txs'[t].since = "clean"
                                      /\ res'.op \notin {"sign", "clear_signature"}
          /\ (txs[t]._raw = None /\ txs'[t]._raw # None) =>
                txs'[t]._raw = _serialize(txs[t], TRUE, FALSE)']_vars

\* sign has just returned on an output of a transaction whose raw, hash and
\* id were read before it: the cached raw still holds the unsigned script.
SignedWithCachesFilled ==
    /\ res.op = "sign"
    /\ res.ok
    /\ txs[1]._hash # None
    /\ txs[1]._id # None
    /\ StaleRaw(txs[1])
    /\ IsSigned(outs[2])


---------------------------------------------------------------------------
(* C14.  Input: script, coinbase and the null reference.                   *)

\* The references, script arguments and sequences the constructor is given.
InputRefs ==
    {TXORef(TXRefImmutable(NULL_HASH32), 0),
     TXORef(TXRefImmutable(NULL_HASH32), UINT32_MAX),
     TXORef(TXRefImmutable(HashA), 3)}

ScriptArguments == {None, Some(<<>>), Some(<<81>>)}

\* Outputs handed to Input.spend: a payment, a claim, an output of the null
\* transaction hash, and a data output that cannot be spent.
SpentOutputs ==
    {WalletOutput(7, pay_pubkey_hash(PubKeyHash), HashB, 1, "True"),
     WalletOutput(3, pay_claim_name_pubkey_hash(<<110>>, <<8>>, PubKeyHash), HashB, 0, "True"),
     WalletOutput(5, pay_pubkey_hash(PubKeyHash), NULL_HASH32, 0, "True"),
     WalletOutput(0, OutputScript(<<OP_RETURN, 1, 7>>), HashB, 2, "None")}

\* Inputs on the wire: a coinbase, a coinbase with an empty script, a
\* spending input, and one cut short.
InputStreams ==
    {InputSerialize(create_coinbase),
     NULL_HASH32 \o U32LE(UINT32_MAX) \o write_string(<<>>) \o U32LE(0),
     InputSerialize(UnresolvedInput),
     SubSeq(InputSerialize(UnresolvedInput), 1, 38)}

\* Each action records the call in res: op, the script argument (arg), and
\* the heap index of the Input returned (val).

\* Input(txo_ref, script, sequence)
ConstructInput(txo_ref, script, sequence) ==
    /\ Len(ins) < MaxHeap
    /\ ins' = Append(ins, Input(txo_ref, script, sequence))
    /\ res' = Returned("Input", script, Len(ins) + 1)
    /\ UNCHANGED <<txs, outs>>
    /\ UNCHANGED db

\* Input.spend(txo)
SpendOutput(txo) ==
    /\ Len(ins) < MaxHeap
    /\ IF is_pay_pubkey_hash(txo.script)
       THEN /\ ins' = Append(ins, spend(txo))
            /\ res' = Returned("spend", None, Len(ins) + 1)
       ELSE /\ ins' = ins
            /\ res' = Raised("spend", None, "AssertionError")
    /\ UNCHANGED <<txs, outs>>
    /\ UNCHANGED db

\* Input.create_coinbase()
CreateCoinbase ==
    /\ Len(ins) < MaxHeap
    /\ ins' = Append(ins, create_coinbase)
    /\ res' = Returned("create_coinbase", None, Len(ins) + 1)
    /\ UNCHANGED <<txs, outs>>
    /\ UNCHANGED db

\* Input.deserialize_from(stream)
DeserializeInput(s) ==
    /\ Len(ins) < MaxHeap
    /\ LET r == InputDeserialize(s, 0)
       IN  IF r.ok
           THEN /\ ins' = Append(ins, r.val)
                /\ res' = Returned("deserialize_from", None, Len(ins) + 1)
           ELSE /\ ins' = ins
                /\ res' = Raised("deserialize_from", None, "struct.error")
    /\ UNCHANGED <<txs, outs>>
    /\ UNCHANGED db

NextInput ==
    \/ \E r \in InputRefs, sc \in ScriptArguments, sq \in {UINT32_MAX, 0} :
          ConstructInput(r, sc, sq)
    \/ \E txo \in SpentOutputs : SpendOutput(txo)
    \/ CreateCoinbase
    \/ \E s \in InputStreams : DeserializeInput(s)

SpecInput == Init /\ [][NextInput]_vars

\* Exactly one of script and coinbase is set, and is_coinbase iff the
\* reference is null.
InputWellFormed(txi) ==
    /\ (txi.script # None) # (txi.coinbase # None)
    /\ is_coinbase(txi) <=> is_null(txi.txo_ref)

\* C14 as stated: every Input, however it was obtained and whatever script
\* argument the constructor was given, has exactly one of script and
\* coinbase set and is_coinbase iff its txo_ref is null.
EveryInputWellFormed == \A i \in 1..Len(ins) : InputWellFormed(ins[i])

\* C14: the Input returned by Input.spend, Input.create_coinbase,
\* Input.deserialize_from, or the constructor given a script argument that
\* is not None, has exactly one of script and coinbase set and is_coinbase
\* iff its txo_ref is null; the constructor given None as script returns an
\* Input with neither set, which is not a coinbase whatever its txo_ref.
InputWellFormedGivenScript ==
    (res.op \in {"Input", "spend", "create_coinbase", "deserialize_from"} /\ res.ok) =>
        IF res.op = "Input" /\ res.arg = None
        THEN /\ ins[res.val].script = None
             /\ ins[res.val].coinbase = None
             /\ ~is_coinbase(ins[res.val])
        ELSE InputWellFormed(ins[res.val])

\* deserialize_from has just returned a coinbase whose script is empty,
\* next to an Input the constructor built on a null reference.
EmptyCoinbaseDeserialized ==
    /\ res.op = "deserialize_from"
    /\ res.ok
    /\ ins[res.val].coinbase = Some(<<>>)
    /\ Len(ins) = 2
    /\ is_coinbase(ins[1])
    /\ ins[1].sequence = 0


---------------------------------------------------------------------------
(* BlockchainDB.  db.executor is None or Some(e), e the number of the      *)
(* ThreadPoolExecutor; db.connection is None or Some(thread), the thread   *)
(* that made the sqlite3 connection.  db.jobs are the functions handed to  *)
(* executors, in submission order (touch and at are history: whether the   *)
(* job reached the store, and its place in the order of starts); db.calls  *)
(* are the coroutines started on                                           *)
(* the event loop.  A call runs on the loop from one await to the next;    *)
(* jobs run on executor threads beside it.                                 *)

\* The thread a job runs on: the one worker of executor ex, or, for the
\* loop's default executor (ex = 0), a pool thread of its own.
Thread(j) == IF db.jobs[j].ex = 0 THEN 0 - j ELSE db.jobs[j].ex

\* loop.run_in_executor(self.executor, fn): the job joins the queue of the
\* facade's executor, or of the loop's default executor when that is None.
run_in_executor(d, fn) ==
    [d EXCEPT !.jobs = Append(@, [fn |-> fn,
                                  ex |-> IF d.executor = None THEN 0 ELSE d.executor[1],
                                  st |-> "queued", touch |-> FALSE, err |-> "",
                                  at |-> 0])]

\* A coroutine: suspended on job (pc "await"), blocking the loop in
\* executor.shutdown() (pc "shutdown"), returned or raised (pc "done", err),
\* or cancelled.
Call(op, pc, job, err) == [op |-> op, pc |-> pc, job |-> job, err |-> err]

\* No call is suspended or in shutdown.
NoCallInFlight == \A c \in 1..Len(db.calls) : db.calls[c].pc \in {"done", "cancelled"}

\* A call may start: the loop is free, and, for a caller that awaits each
\* call before the next (overlap FALSE), no call is in flight.
MayCall(overlap) ==
    /\ Len(db.calls) < MaxCalls
    /\ db.blocked = 0
    /\ overlap \/ NoCallInFlight

\* BlockchainDB.open up to its await.
Open(overlap) ==
    /\ MayCall(overlap)
    /\ db' = IF db.executor # None
             THEN [db EXCEPT !.calls = Append(@, Call("open", "done", 0, "AssertionError"))]
             ELSE LET made == [db EXCEPT !.executor = Some(db.nexec + 1),
                                         !.nexec = db.nexec + 1]
                      sent == run_in_executor(made, "sync_open")
                  IN  [sent EXCEPT !.calls = Append(@, Call("open", "await", Len(sent.jobs), ""))]
    /\ UNCHANGED <<txs, ins, outs, res>>

\* BlockchainDB.close up to its await, or, with no connection, to
\* executor.shutdown().
Close(overlap) ==
    /\ MayCall(overlap)
    /\ db' = IF db.executor = None
             THEN [db EXCEPT !.calls = Append(@, Call("close", "done", 0, ""))]
             ELSE IF db.connection # None
             THEN LET sent == run_in_executor(db, "sync_close")
                  IN  [sent EXCEPT !.calls = Append(@, Call("close", "await", Len(sent.jobs), ""))]
             ELSE [db EXCEPT !.calls = Append(@, Call("close", "shutdown", 0, "")),
                             !.blocked = Len(db.calls) + 1]
    /\ UNCHANGED <<txs, ins, outs, res>>

\* BlockchainDB.execute (and every other query) up to its await.
Execute(overlap) ==
    /\ MayCall(overlap)
    /\ db' = LET sent == run_in_executor(db, "sync_execute")
             IN  [sent EXCEPT !.calls = Append(@, Call("execute", "await", Len(sent.jobs), ""))]
    /\ UNCHANGED <<txs, ins, outs, res>>

\* The awaited job is done and the coroutine runs on: open and execute
\* return or raise what the job did; close raises what sync_close raised,
\* or goes on to self.executor.shutdown().
Resume(c) ==
    /\ db.blocked = 0
    /\ db.calls[c].pc = "await"
    /\ db.jobs[db.calls[c].job].st = "done"
    /\ LET err == db.jobs[db.calls[c].job].err
       IN  db' = IF db.calls[c].op # "close" \/ err # ""
                 THEN [db EXCEPT !.calls[c].pc = "done", !.calls[c].err = err]
                 ELSE IF db.executor = None
                 THEN [db EXCEPT !.calls[c].pc = "done", !.calls[c].err = "AttributeError"]
                 ELSE [db EXCEPT !.calls[c].pc = "shutdown", !.blocked = c]
    /\ UNCHANGED <<txs, ins, outs, res>>

\* A close that shuts the executor down and keeps the reference to it.
ShutdownKeepsExecutor(c) ==
    /\ db.blocked = c
    /\ \A j \in 1..Len(db.jobs) :
          db.jobs[j].ex = db.executor[1] => db.jobs[j].st \in {"done", "cancelled"}
    /\ db' = [db EXCEPT !.blocked = 0, !.calls[c].pc = "done"]
    /\ UNCHANGED <<txs, ins, outs, res>>

\* executor.shutdown() returns once the executor has run every job it was
\* given; close then sets self.executor = None.
Shutdown(c) ==
    /\ db.blocked = c
    /\ \A j \in 1..Len(db.jobs) :
          db.jobs[j].ex = db.executor[1] => db.jobs[j].st \in {"done", "cancelled"}
    /\ db' = [db EXCEPT !.executor = None, !.blocked = 0, !.calls[c].pc = "done"]
    /\ UNCHANGED <<txs, ins, outs, res>>

\* task.cancel() on a suspended call: CancelledError is raised at its await
\* and the rest of the coroutine does not run; the job is withdrawn if no
\* thread has started it.
Cancel(c) ==
    /\ db.blocked = 0
    /\ db.calls[c].pc = "await"
    /\ db' = [db EXCEPT !.calls[c].pc = "cancelled", !.calls[c].err = "CancelledError",
                        !.jobs[db.calls[c].job].st =
                            IF @ = "queued" THEN "cancelled" ELSE @]
    /\ UNCHANGED <<txs, ins, outs, res>>

\* An executor that starts a job whenever one is queued.
StartsWhateverRuns(j) == db.jobs[j].st = "queued"

\* ThreadPoolExecutor(max_workers=1): its worker takes the oldest queued job
\* when it runs none; the default executor has a thread for every job.
CanStart(j) ==
    /\ db.jobs[j].st = "queued"
    /\ db.jobs[j].ex # 0 =>
          \A i \in 1..Len(db.jobs) :
              (i # j /\ db.jobs[i].ex = db.jobs[j].ex) =>
                  /\ db.jobs[i].st # "running"
                  /\ i < j => db.jobs[i].st # "queued"

\* What a job does with self.connection on its thread: sync_open connects;
\* sync_close and sync_execute fail on None, and on a connection made by
\* another thread (sqlite3's check_same_thread) before reaching the store.
JobError(j) ==
    IF db.jobs[j].fn = "sync_open" THEN ""
    ELSE IF db.connection = None THEN "AttributeError"
    ELSE IF db.connection[1] # Thread(j) THEN "ProgrammingError"
    ELSE ""

\* Jobs some thread has started.
Started == {i \in 1..Len(db.jobs) : db.jobs[i].at # 0}

\* A thread starts job j; touch records that it reaches the store, at its
\* place in the order of starts.
Start(j) ==
    /\ CanStart(j)
    /\ db' = [db EXCEPT !.jobs[j].st = "running", !.jobs[j].err = JobError(j),
                        !.jobs[j].touch = (JobError(j) = ""),
                        !.jobs[j].at = Cardinality(Started) + 1]
    /\ UNCHANGED <<txs, ins, outs, res>>

\* Job j ends: sync_open has set self.connection, sync_close has closed it
\* and set it to None.
Finish(j) ==
    /\ db.jobs[j].st = "running"
    /\ db' = [db EXCEPT !.jobs[j].st = "done",
                        !.connection =
                            IF db.jobs[j].fn = "sync_open" THEN Some(Thread(j))
                            ELSE IF db.jobs[j].fn = "sync_close" /\ db.jobs[j].touch THEN None
                            ELSE @]
    /\ UNCHANGED <<txs, ins, outs, res>>

Calls == 1..MaxCalls

\* Calls issued at any time, cancelled at any time.
NextDB ==
    \/ Open(TRUE)
    \/ Close(TRUE)
    \/ Execute(TRUE)
    \/ \E c \in Calls : c <= Len(db.calls) /\ Resume(c)
    \/ \E c \in Calls : c <= Len(db.calls) /\ Shutdown(c)
    \/ \E c \in Calls : c <= Len(db.calls) /\ Cancel(c)
    \/ \E j \in Calls : j <= Len(db.jobs) /\ Start(j)
    \/ \E j \in Calls : j <= Len(db.jobs) /\ Finish(j)

SpecDB == Init /\ [][NextDB]_vars


\* One caller that awaits each call before the next, and may be cancelled
\* while suspended.
NextDBCancel ==
    \/ Open(FALSE)
    \/ Close(FALSE)
    \/ Execute(FALSE)
    \/ \E c \in Calls : c <= Len(db.calls) /\ Resume(c)
    \/ \E c \in Calls : c <= Len(db.calls) /\ Shutdown(c)
    \/ \E c \in Calls : c <= Len(db.calls) /\ Cancel(c)
    \/ \E j \in Calls : j <= Len(db.jobs) /\ Start(j)
    \/ \E j \in Calls : j <= Len(db.jobs) /\ Finish(j)

SpecDBCancel == Init /\ [][NextDBCancel]_vars

\* One caller that awaits each call before the next and is never cancelled.
NextDBSeq ==
    \/ Open(FALSE)
    \/ Close(FALSE)
    \/ Execute(FALSE)
    \/ \E c \in Calls : c <= Len(db.calls) /\ Resume(c)
    \/ \E c \in Calls : c <= Len(db.calls) /\ Shutdown(c)
    \/ \E j \in Calls : j <= Len(db.jobs) /\ Start(j)
    \/ \E j \in Calls : j <= Len(db.jobs) /\ Finish(j)

SpecDBSeq == Init /\ [][NextDBSeq]_vars


---------------------------------------------------------------------------
(* C15: store operations run one at a time, in submission order, on the    *)
(* worker of the facade's executor.                                        *)

\* Jobs that reached the store.
Touching == {j \in 1..Len(db.jobs) : db.jobs[j].touch}

\* C15: however open, close and query calls interleave, a job that touches
\* the store runs on the worker of the executor the facade holds while it
\* runs, no two such jobs run at the same time, and they start in the order
\* they were submitted.
StoreTouchedByOneWorkerInOrder ==
    /\ \A j \in Touching :
          /\ db.jobs[j].ex # 0
          /\ db.jobs[j].st = "running" => db.executor = Some(db.jobs[j].ex)
    /\ \A i, j \in Touching :
          (db.jobs[i].st = "running" /\ db.jobs[j].st = "running") => i = j
    /\ \A i, j \in Touching : i < j => db.jobs[i].at < db.jobs[j].at

\* A query touches the store on the worker while a second query, issued before
\* the first returned, waits behind it in the worker's queue.
QueryRunsWithQueryQueuedBehind ==
    \E i, j \in 1..Len(db.jobs) :
        /\ i < j
        /\ db.jobs[i].fn = "sync_execute" /\ db.jobs[j].fn = "sync_execute"
        /\ db.jobs[i].ex = db.jobs[j].ex /\ db.jobs[i].ex # 0
        /\ db.jobs[i].st = "running" /\ db.jobs[i].touch
        /\ db.jobs[j].st = "queued"

\* A query issued while the facade holds no executor runs on a thread of the
\* loop's default executor, finds a connection some worker made, and is
\* refused by it.
QueryRefusedOffWorker ==
    \E j \in 1..Len(db.jobs) :
        db.jobs[j].ex = 0 /\ db.jobs[j].err = "ProgrammingError"


---------------------------------------------------------------------------
(* C16: cancelling a suspended caller.                                     *)

\* No job is queued or running, and no call is suspended or in shutdown.
WorkerIdle ==
    /\ NoCallInFlight
    /\ db.blocked = 0
    /\ \A j \in 1..Len(db.jobs) : db.jobs[j].st \in {"done", "cancelled"}

FullyOpen == db.executor # None /\ db.connection # None

FullyClosed == db.executor = None /\ db.connection = None

\* Some call was cancelled.
SomeCallCancelled == \E c \in 1..Len(db.calls) : db.calls[c].pc = "cancelled"

\* C16: with a caller cancelled while suspended in open, close or a query,
\* once the worker is idle the facade is fully open or fully closed.
CancelLeavesOpenOrClosed ==
    (SomeCallCancelled /\ WorkerIdle) => (FullyOpen \/ FullyClosed)

\* The same of a caller that is never cancelled.
UncancelledLeavesOpenOrClosed ==
    (~SomeCallCancelled /\ WorkerIdle) => (FullyOpen \/ FullyClosed)

\* The job of a cancelled call is never left unrun.
CancelledCallsJobRuns ==
    \A c \in 1..Len(db.calls) :
        db.calls[c].pc = "cancelled" => db.jobs[db.calls[c].job].st # "cancelled"

\* The same as CancelLeavesOpenOrClosed where every cancelled call's job did
\* run to completion.
CancelAfterStartLeavesOpenOrClosed ==
    (SomeCallCancelled /\ WorkerIdle /\ CancelledCallsJobRuns) => (FullyOpen \/ FullyClosed)


---------------------------------------------------------------------------
(* C17: the life cycle of a facade used by one caller that awaits each     *)
(* call before the next.                                                   *)

\* This step issues a call of op.
Issues(op) ==
    /\ Len(db'.calls) = Len(db.calls) + 1
    /\ db'.calls[Len(db'.calls)].op = op

\* This step is the return of call c of op.
Returns(c, op) ==
    /\ c <= Len(db.calls)
    /\ db.calls[c].op = op
    /\ db.calls[c].pc # "done"
    /\ db'.calls[c].pc = "done"

\* The call this step issued returned in the same step with err, and left
\* executor, connection and the executors' queues as they were.
ReturnsAtOnce(err) ==
    /\ db'.calls[Len(db'.calls)].pc = "done"
    /\ db'.calls[Len(db'.calls)].err = err
    /\ db'.executor = db.executor
    /\ db'.connection = db.connection
    /\ db'.jobs = db.jobs

\* C17: open on a facade whose executor is set raises AssertionError and
\* leaves executor and connection as they were; close on a facade whose
\* executor is None does nothing; a close that returns leaves executor and
\* connection both None; and an open issued in that state returns without
\* error with both set.
LifecycleAlternates ==
    [][/\ (Issues("open") /\ db.executor # None) => ReturnsAtOnce("AssertionError")
       /\ (Issues("close") /\ db.executor = None) => ReturnsAtOnce("")
       /\ \A c \in Calls :
             Returns(c, "close") => (db'.calls[c].err = "" /\ FullyClosed')
       /\ (Issues("open") /\ FullyClosed) => db'.calls[Len(db'.calls)].pc = "await"
       /\ \A c \in Calls :
             Returns(c, "open") => (db'.calls[c].err = "" /\ FullyOpen')]_vars

\* open, a second open refused, close, and open again: the facade is open
\* for the second time.
OpenedAgainAfterClose ==
    /\ Len(db.calls) = 4
    /\ db.calls[1] = Call("open", "done", 1, "")
    /\ db.calls[2] = Call("open", "done", 0, "AssertionError")
    /\ db.calls[3].op = "close" /\ db.calls[3].pc = "done" /\ db.calls[3].err = ""
    /\ db.calls[4].op = "open" /\ db.calls[4].pc = "done" /\ db.calls[4].err = ""
    /\ FullyOpen
    /\ db.executor = Some(2)

\* close, close, open, close: both closes of a facade never opened did
\* nothing, and the facade is closed again.
ClosedTwiceThenCycled ==
    /\ Len(db.calls) = 4
    /\ db.calls[1] = Call("close", "done", 0, "")
    /\ db.calls[2] = Call("close", "done", 0, "")
    /\ db.calls[3].op = "open" /\ db.calls[3].err = ""
    /\ db.calls[4].op = "close" /\ db.calls[4].pc = "done"
    /\ FullyClosed
    /\ Len(db.jobs) = 2

====
